---- MODULE Spec2Model ----
(***************************************************************************)
(* A model of the A.T.L.A.S. trading bot's risk-gated decision engine:     *)
(*   - riskmap-ia   (src/unnamed/part_010): loss-streak and drawdown       *)
(*                   circuit breakers, persisted state;                    *)
(*   - exec-ia      (src/unnamed/part_003): the open-trade set;            *)
(*   - signalrank-ia (src/unnamed/part_002): getFinalScore;                *)
(*   - atlas-automation.js: the orchestration loop;                        *)
(*   - riskmap-ia (refactored, src/unnamed/part_009): assessRisk, and the  *)
(*                   calendar feed of scraping-forexfactory.js;            *)
(*   - compound-logic.js: calculateStake.                                  *)
(* Time is counted in minutes.  Money is counted in whole units.           *)
(***************************************************************************)
EXTENDS Integers, Sequences, FiniteSets, TLC

VARIABLES
  now,          \* the wall clock (Date.now()), in minutes
  ret,          \* the value the last call returned (null: nothing)
  \* riskmap-ia
  riskState,    \* the module variable `state`
  saveError,    \* whether the last call logged "Error al guardar estado"
  highWater,    \* history: the maximum balance observed since initBalance
  lossRun,      \* history: consecutive losses registered since the last win or resume
  \* atlas-automation.js
  pc,           \* where runDemoPhase / runRealPhase stands
  i,            \* the loop variable of the phase
  systemState,  \* phase, operationCount, winCount, lossCount, status
  operation,    \* the result of the iteration's executeTrade: "win", "loss" or "none"
  execBalance,  \* state.balance of exec-ia, the last balance the broker reported
  amount,       \* the amount of the last order sent to the broker: null or <<cents>>
  fusedSignal,  \* the iteration's `fusedSignal` until executeTrade has taken it
                \* (null: fuseSignals returned null, or no signal is pending)
  tradeCount0,  \* history: state.tradeCount of riskmap-ia when the phase began
  executed,     \* history: the number of executeTrade calls that returned a trade
  \* exec-ia
  openTrades,   \* state.openTrades
  backtestMode, \* config.backtestMode
  client,       \* iqOptionClient: "none" (null), "connected" or "disconnected"
  nextTradeId,  \* the number of trade ids handed out so far
  checked,      \* history: the last checkTradeResult call (null: another operation),
                \* its trade and what became of iqOptionClient.getTradeResult
  reportedClosed, \* history: the ids of the trades checkTradeResult reported closed
  queried,      \* history: the ids of the trades a result query was sent for
  removed,      \* history: the id the last removeTrade call was given (null: another
                \* operation)
  \* signalrank-ia, riskmap-ia (refactored)
  args,         \* the argument of the last getFinalScore / assessRisk /
                \* calculateStake / placeTrade call (null: another operation)
  \* scraping-forexfactory.js
  calendar,     \* the calendar file: null (none, or unreadable) or its events
  upcomingEvents, \* what the last getUpcomingHighImpactEvents call returned
  feedUnavailable, \* history: that call could not read the calendar
  \* fetchWithRetry
  fetchPc,      \* where the call stands: "loop", "delay", "returned" or "thrown"
  fetchArgs,    \* the `retries` and `backoff` the call was given (null: left out)
  retries,      \* the parameter `retries`
  backoff,      \* the parameter `backoff`, in ms
  fetchI,       \* the loop variable `i`
  lastError,    \* `lastError`: null (undefined) or <<error>>
  requests,     \* history: the number of axios requests made
  errors,       \* history: the errors of the failed requests, in order
  waited,       \* history: the delays waited, in ms, in order
  \* riskmap-ia: the state file and the two fields riskState leaves out
  maxDrawdownPercent, \* state.maxDrawdownPercent
  lastUpdate,   \* state.lastUpdate: null or the time of the last saveState
  stateFile,    \* riskmap-ia-state.json: null (no file) or the JSON it holds
  savedState,   \* history: the module state as the last successful save left it
  loadLog,      \* what the last loadState logged: "loaded", "created" or "error"
                \* ("none": another operation came after)
  \* the files, write by write
  tmpFile,      \* riskmap-ia-state.json.tmp: null (no file), Truncated or the JSON
  saves,        \* the saveState calls in flight, by the slot each one runs in
  serialized,   \* history: every JSON.stringify(state) handed to writeFile
  overlapped,   \* history: a saveState began while another was in flight
  execFile,     \* exec-ia-state.json: null (no file), Truncated or the JSON
  execLoadLog   \* what exec-ia's last loadState did: "loaded", "missing" or
                \* "error" ("none": another operation came after)

riskVars == <<riskState, saveError, highWater, lossRun>>
loopVars == <<pc, i, systemState, operation, execBalance, amount, fusedSignal, tradeCount0,
             executed>>
execVars == <<openTrades, backtestMode, client, nextTradeId, checked, reportedClosed,
             queried, removed>>
newsVars == <<calendar, upcomingEvents, feedUnavailable>>
fetchVars == <<fetchPc, fetchArgs, retries, backoff, fetchI, lastError, requests, errors,
               waited>>
filesVars == <<tmpFile, saves, serialized, overlapped, execFile, execLoadLog>>
diskVars == <<maxDrawdownPercent, lastUpdate, stateFile, savedState, loadLog, filesVars>>
vars == <<now, ret, riskVars, loopVars, execVars, args, newsVars, fetchVars, diskVars>>

(***************************************************************************)
(* Bounds of the model.                                                    *)
(***************************************************************************)
MaxTime == 60
TickMinutes == 15
MaxBalance == 5
MaxTrades == 4
\* config.TOTAL_OPERATIONS (180 unless the environment sets it).
TOTAL_OPERATIONS == 8
MaxPlaced == 2
\* The saveState calls that may be in flight together.
MaxSavers == 2

(***************************************************************************)
(* riskmap-ia: configuration (part_010 lines 17-24).                       *)
(***************************************************************************)
MAX_LOSS_STREAK == 3
PAUSE_DURATION == 15
\* MAX_DRAWDOWN_PERCENT is 0.20 in the source; here in percent.
MAX_DRAWDOWN_PERCENT == 20
\* `Date.now() + 3600000`: the drawdown pause, in minutes.
DRAWDOWN_PAUSE == 60

\* JavaScript's null, and an ISO date string holding time t.
null == <<>>
ISO(t) == <<t>>
\* new Date(x).getTime(): new Date(null) is the epoch.
DateOf(x) == IF x = null THEN 0 ELSE x[1]

\* A quotient of two numbers as JavaScript computes it, kept as the pair:
\* num / den for den # 0, and Infinity for a positive num over 0.
Ratio(num, den) ==
  IF den = 0 THEN [kind |-> "Infinity"]
  ELSE IF num = 0 THEN [kind |-> "finite", num |-> 0, den |-> 1]
  ELSE [kind |-> "finite", num |-> num, den |-> den]

Balances == {0} \cup ((MaxBalance - 2)..MaxBalance)
Results == {"win", "loss"}

\* `let state = {...}` of riskmap-ia.  Two fields are left out: lastUpdate
\* (the time of the last save) and maxDrawdownPercent (maxDrawdown divided by
\* initialBalance, a statistic that nothing reads).
defaultRiskState ==
  [isPaused |-> FALSE, lossesInRow |-> 0, tradeCount |-> 0, maxLossStreak |-> 0,
   pauseUntil |-> null, balance |-> 0, initialBalance |-> 0, maxDrawdown |-> 0]

\* saveState: JSON.stringify(state) is written to a temporary file which is
\* renamed over the state file; an I/O error is caught and logged, and the
\* caller goes on.  The module state is not touched either way (but for
\* lastUpdate); `ok` is whether the write and the rename succeeded.
saveState(ok) == saveError' = ~ok

\* drawdownPercent > config.MAX_DRAWDOWN_PERCENT, with drawdownPercent =
\* drawdown / initialBalance.  For initialBalance = 0 the quotient is
\* Infinity (drawdown > 0), NaN (= 0) or -Infinity (< 0), and the comparison
\* is true only for Infinity: the cross-multiplied form agrees.
drawdownBreached(drawdown, initialBalance) ==
  drawdown * 100 > MAX_DRAWDOWN_PERCENT * initialBalance

\* updateBalance up to its saveState: the state it leaves, called at time t.
updateBalanceState(s, newBalance, t) ==
  LET previousBalance == s.balance
      drawdown == previousBalance - newBalance
      s1 == [s EXCEPT !.balance = newBalance]
      s2 == IF drawdown > s1.maxDrawdown
              THEN [s1 EXCEPT !.maxDrawdown = drawdown]
              ELSE s1
  IN IF drawdownBreached(drawdown, s2.initialBalance)
       THEN [s2 EXCEPT !.isPaused = TRUE, !.pauseUntil = ISO(t + DRAWDOWN_PAUSE)]
       ELSE s2

\* A registerTrade that trips the breaker one loss late.
registerTradeState_TripsLate(s, result, t) ==
  LET s1 == [s EXCEPT !.tradeCount = @ + 1]
  IN IF result = "loss"
       THEN LET s2 == [s1 EXCEPT !.lossesInRow = @ + 1,
                                 !.maxLossStreak = IF s.lossesInRow + 1 > @
                                                     THEN s.lossesInRow + 1 ELSE @]
            IN IF s2.lossesInRow > MAX_LOSS_STREAK
                 THEN [s2 EXCEPT !.isPaused = TRUE,
                                 !.pauseUntil = ISO(t + PAUSE_DURATION)]
                 ELSE s2
       ELSE [s1 EXCEPT !.lossesInRow = 0]

\* A registerTrade whose win lifts the pause.
registerTradeState_WinResumes(s, result, t) ==
  LET s1 == [s EXCEPT !.tradeCount = @ + 1]
  IN IF result = "loss"
       THEN LET s2 == [s1 EXCEPT !.lossesInRow = @ + 1,
                                 !.maxLossStreak = IF s.lossesInRow + 1 > @
                                                     THEN s.lossesInRow + 1 ELSE @]
            IN IF s2.lossesInRow >= MAX_LOSS_STREAK
                 THEN [s2 EXCEPT !.isPaused = TRUE,
                                 !.pauseUntil = ISO(t + PAUSE_DURATION)]
                 ELSE s2
       ELSE [s1 EXCEPT !.lossesInRow = 0, !.isPaused = FALSE, !.pauseUntil = null]

\* A registerTrade whose win resets the counter only while not paused.
registerTradeState_NoResetPaused(s, result, t) ==
  LET s1 == [s EXCEPT !.tradeCount = @ + 1]
  IN IF result = "loss"
       THEN LET s2 == [s1 EXCEPT !.lossesInRow = @ + 1,
                                 !.maxLossStreak = IF s.lossesInRow + 1 > @
                                                     THEN s.lossesInRow + 1 ELSE @]
            IN IF s2.lossesInRow >= MAX_LOSS_STREAK
                 THEN [s2 EXCEPT !.isPaused = TRUE,
                                 !.pauseUntil = ISO(t + PAUSE_DURATION)]
                 ELSE s2
       ELSE IF s.isPaused THEN s1 ELSE [s1 EXCEPT !.lossesInRow = 0]

\* A registerTrade that takes no note of a win.
registerTradeState_LossesOnly(s, result, t) ==
  IF result = "loss"
    THEN [s EXCEPT !.tradeCount = @ + 1, !.lossesInRow = @ + 1]
    ELSE s

\* registerTrade up to its saveState.
registerTradeState(s, result, t) ==
  LET s1 == [s EXCEPT !.tradeCount = @ + 1]
  IN IF result = "loss"
       THEN LET s2 == [s1 EXCEPT !.lossesInRow = @ + 1]
                s3 == IF s2.lossesInRow > s2.maxLossStreak
                        THEN [s2 EXCEPT !.maxLossStreak = s2.lossesInRow]
                        ELSE s2
            IN IF s3.lossesInRow >= MAX_LOSS_STREAK
                 THEN [s3 EXCEPT !.isPaused = TRUE,
                                 !.pauseUntil = ISO(t + PAUSE_DURATION)]
                 ELSE s3
       ELSE [s1 EXCEPT !.lossesInRow = 0]

\* An expiry test that is strict: at pauseUntil itself the pause stays.
pauseExpired_Strict(s, t) == s.isPaused /\ t > DateOf(s.pauseUntil)

\* checkStatus's expiry test: state.isPaused and now >= new Date(pauseUntil).
pauseExpired(s, t) == s.isPaused /\ t >= DateOf(s.pauseUntil)

\* A checkStatus that resets the loss counter on every call.
checkStatusState_AlwaysResets(s, t) ==
  IF pauseExpired(s, t)
    THEN [s EXCEPT !.isPaused = FALSE, !.pauseUntil = null, !.lossesInRow = 0]
    ELSE [s EXCEPT !.lossesInRow = 0]

\* A checkStatus that lifts the pause and keeps the deadline.
checkStatusState_KeepsDeadline(s, t) ==
  IF pauseExpired(s, t)
    THEN [s EXCEPT !.isPaused = FALSE, !.lossesInRow = 0]
    ELSE s

\* checkStatus: the state it leaves.
checkStatusState(s, t) ==
  IF pauseExpired(s, t)
    THEN [s EXCEPT !.isPaused = FALSE, !.pauseUntil = null, !.lossesInRow = 0]
    ELSE s

\* checkStatus: the object it returns, built from the state it leaves.
statusOf(s) ==
  [isPaused |-> s.isPaused, pauseUntil |-> s.pauseUntil,
   lossesInRow |-> s.lossesInRow, maxLossStreak |-> s.maxLossStreak,
   tradeCount |-> s.tradeCount, balance |-> s.balance,
   maxDrawdown |-> s.maxDrawdown]

\* initBalance up to its saveState.
initBalanceState(s, initialBalance) ==
  [s EXCEPT !.balance = initialBalance, !.initialBalance = initialBalance]

Max(a, b) == IF a >= b THEN a ELSE b

(***************************************************************************)
(* riskmap-ia's operations, called in any order.                           *)
(***************************************************************************)
initBalance(b) ==
  /\ riskState' = initBalanceState(riskState, b)
  /\ \E ok \in BOOLEAN : saveState(ok)
  /\ highWater' = b
  /\ ret' = null
  /\ UNCHANGED <<now, lossRun, loopVars, execVars, args, newsVars, fetchVars>>

updateBalance(b) ==
  /\ riskState' = updateBalanceState(riskState, b, now)
  /\ \E ok \in BOOLEAN : saveState(ok)
  /\ highWater' = Max(highWater, b)
  /\ ret' = null
  /\ UNCHANGED <<now, lossRun, loopVars, execVars, args, newsVars, fetchVars>>

registerTrade(result) ==
  /\ riskState.tradeCount < MaxTrades
  /\ riskState' = registerTradeState(riskState, result, now)
  /\ \E ok \in BOOLEAN : saveState(ok)
  /\ lossRun' = IF result = "loss" THEN lossRun + 1 ELSE 0
  /\ ret' = null
  /\ UNCHANGED <<now, highWater, loopVars, execVars, args, newsVars, fetchVars>>

checkStatus ==
  /\ riskState' = checkStatusState(riskState, now)
  /\ ret' = statusOf(riskState')
  /\ IF pauseExpired(riskState, now)
       THEN /\ \E ok \in BOOLEAN : saveState(ok)
            /\ lossRun' = 0
       ELSE /\ saveError' = FALSE
            /\ UNCHANGED lossRun
  /\ UNCHANGED <<now, highWater, loopVars, execVars, args, newsVars, fetchVars>>

\* The clock advances between calls.
Advance ==
  /\ now + TickMinutes <= MaxTime
  /\ now' = now + TickMinutes
  /\ ret' = null
  /\ saveError' = FALSE
  /\ UNCHANGED <<riskState, highWater, lossRun, loopVars, execVars, args, newsVars, fetchVars, diskVars>>

\* The slots a saveState call runs in, and a slot with no call in it.
Savers == 1..MaxSavers
IdleSave == [pc |-> "idle", data |-> null, fd |-> "none", awaited |-> FALSE]

\* The parts of the system a specification leaves alone.
loopIdle ==
  /\ pc = "off" /\ i = 0 /\ operation = "none"
  /\ systemState = [phase |-> "demo", operationCount |-> 0, winCount |-> 0,
                    lossCount |-> 0, status |-> "initializing"]
  /\ execBalance = 0 /\ amount = null /\ fusedSignal = null /\ tradeCount0 = 0
  /\ executed = 0
execIdle ==
  /\ openTrades = <<>> /\ backtestMode = TRUE /\ client = "none" /\ nextTradeId = 0
  /\ checked = null /\ reportedClosed = {} /\ queried = {} /\ removed = null
riskIdle ==
  /\ riskState = defaultRiskState /\ saveError = FALSE /\ highWater = 0 /\ lossRun = 0
newsIdle ==
  /\ calendar = null /\ upcomingEvents = null /\ feedUnavailable = FALSE
fetchIdle ==
  /\ fetchPc = "off" /\ fetchArgs = null /\ retries = 0 /\ backoff = 0 /\ fetchI = 0
  /\ lastError = null /\ requests = 0 /\ errors = <<>> /\ waited = <<>>
diskIdle ==
  /\ maxDrawdownPercent = Ratio(0, 1) /\ lastUpdate = null
  /\ stateFile = null /\ savedState = null /\ loadLog = "none"
  /\ tmpFile = null /\ saves = [p \in Savers |-> IdleSave]
  /\ serialized = {} /\ overlapped = FALSE
  /\ execFile = null /\ execLoadLog = "none"

InitRisk ==
  /\ now = 0
  /\ ret = null
  /\ riskIdle
  /\ loopIdle
  /\ execIdle
  /\ newsIdle
  /\ fetchIdle
  /\ diskIdle
  /\ args = null

\* The four handlers, with the state file and the two fields riskState
\* leaves out set aside.
NextRisk ==
  \/ \E b \in Balances : initBalance(b) /\ UNCHANGED diskVars
  \/ \E b \in Balances : updateBalance(b) /\ UNCHANGED diskVars
  \/ \E r \in Results : registerTrade(r) /\ UNCHANGED diskVars
  \/ checkStatus /\ UNCHANGED diskVars
  \/ Advance

SpecRisk == InitRisk /\ [][NextRisk]_vars

(***************************************************************************)
(* atlas-automation.js: runDemoPhase and runRealPhase.  The two functions  *)
(* differ in where the initial balance comes from and in the status names. *)
(* Every step runs from one `await` to the next; nothing else runs in      *)
(* between, the process being single-threaded.                             *)
(***************************************************************************)
\* config.OPERATION_INTERVAL (60000 ms) and the `delay(60000)` of a paused
\* iteration, in minutes; config.DURATION of exec-ia, the time a trade takes.
OPERATION_INTERVAL == 1
PAUSED_DELAY == 1
TRADE_DURATION == 1

\* The balances the broker reports; the demo phase starts from 1000,
\* here MaxBalance units.
LoopBalances == (MaxBalance - 2)..MaxBalance
demoInitialBalance == MaxBalance

\* The balance exec-ia holds after initExecutionModule (loadState, then
\* connectToIQOption's getBalance): any balance of the account.
BrokerBalances == LoopBalances \cup {2 * MaxBalance}

\* config.RISK_PERCENT of exec-ia, in percent, and the money one unit of
\* balance stands for.
RISK_PERCENT == 10
DollarsPerUnit == 1000 \div demoInitialBalance

\* calculateLotSize: `state.balance * config.RISK_PERCENT`, in cents.
calculateLotSize(balance) == balance * DollarsPerUnit * RISK_PERCENT

\* What loadState restores at start-up: the defaults (no state file), or the
\* state a previous run saved, here one paused by three losses with two
\* minutes of its pause left.
restoredRiskStates ==
  { defaultRiskState,
    [isPaused |-> TRUE, lossesInRow |-> MAX_LOSS_STREAK, tradeCount |-> MAX_LOSS_STREAK,
     maxLossStreak |-> MAX_LOSS_STREAK, pauseUntil |-> ISO(2),
     balance |-> MaxBalance - 1, initialBalance |-> MaxBalance, maxDrawdown |-> 1] }

\* A loop that skips an iteration only for a loss-streak pause.
pausedSkip_StreakOnly(riskStatus) ==
  riskStatus.isPaused /\ riskStatus.lossesInRow >= MAX_LOSS_STREAK

\* `if (riskStatus.isPaused) { ...; continue; }`
pausedSkip(riskStatus) == riskStatus.isPaused

\* signalrank-ia (part_001): config.MIN_CONFIDENCE, in hundredths, and the
\* weights of fuseSignals, in tenths.
MIN_CONFIDENCE == 70
TECH_WEIGHT == 12
SOURCE_WEIGHT == 10

\* The `signals` array the iteration builds from what the five modules
\* report.
signalsOf(m) ==
  << [action |-> m.tech.action, confidence |-> m.tech.confidence, source |-> "tech-ia"],
     [action |-> IF m.sent.sentiment = "positive" THEN "CALL" ELSE "PUT",
      confidence |-> m.sent.confidence, source |-> "sent-ia"],
     [action |-> IF m.vol.recommendation = "reduce_lot_size" THEN "PUT" ELSE "CALL",
      confidence |-> m.vol.confidence, source |-> "vol-ia"],
     [action |-> m.geoEUR.action, confidence |-> m.geoEUR.confidence, source |-> "geo-eur"],
     [action |-> m.geoUSA.action, confidence |-> m.geoUSA.confidence, source |-> "geo-usa"] >>

weightOf(signal) == IF signal.source = "tech-ia" THEN TECH_WEIGHT ELSE SOURCE_WEIGHT

\* `signals.reduce((sum, signal) => sum + f(signal), 0)`
RECURSIVE reduceSum(_, _, _)
reduceSum(signals, f(_), k) ==
  IF k = 0 THEN 0 ELSE reduceSum(signals, f, k - 1) + f(signals[k])

countAction(signals, action) == Len(SelectSeq(signals, LAMBDA sg : sg.action = action))

\* fuseSignals: the weighted mean of the confidences (here its whole
\* hundredths) and the action of the majority, CALL on a tie.
fuseSignals(signals) ==
  LET weighted(sg) == sg.confidence * weightOf(sg)
      totalWeightedConfidence == reduceSum(signals, weighted, Len(signals))
      totalWeight == reduceSum(signals, weightOf, Len(signals))
      callCount == countAction(signals, "CALL")
      putCount == countAction(signals, "PUT")
  IN [action |-> IF callCount >= putCount THEN "CALL" ELSE "PUT",
      confidence |-> totalWeightedConfidence \div totalWeight]

\* What the modules report in an iteration: tech-ia has no signal yet
\* (HOLD at 0.5) or a CALL at 0.9; the four others agree, on CALL at 0.9 or
\* on PUT at 0.5.
TechReports == { [action |-> "HOLD", confidence |-> 50], [action |-> "CALL", confidence |-> 90] }
ModuleReports ==
  { LET c == IF up THEN 90 ELSE 50
    IN [tech |-> tech,
        sent |-> [sentiment |-> IF up THEN "positive" ELSE "negative", confidence |-> c],
        vol |-> [recommendation |-> IF up THEN "maintain_lot_size" ELSE "reduce_lot_size",
                 confidence |-> c],
        geoEUR |-> [action |-> IF up THEN "CALL" ELSE "PUT", confidence |-> c],
        geoUSA |-> [action |-> IF up THEN "CALL" ELSE "PUT", confidence |-> c]] :
    tech \in TechReports, up \in BOOLEAN }

\* A cycle started by a timer, which fires whatever the previous cycle is
\* waiting for.
cycleMayStart_OnTimer(p) == p \in {"loop", "updateRisk", "interval"}

\* `for (let i = 0; ...; i++) { ... await ... }`: the body of an iteration
\* is entered when the previous body has run to its end (or to a continue).
cycleMayStart(p) == p = "loop"

\* A throw inside the phase: its catch block sets the status and rethrows,
\* and the catch block of startAutomation ends the process with
\* process.exit(1).
phaseError ==
  /\ pc' = "error"
  /\ systemState' = [systemState EXCEPT !.status = systemState.phase \o "_error"]

\* The head of the phase: the status, the initial balance, initBalance.
phaseStart ==
  /\ pc = "start"
  /\ \/ \E b \in IF systemState.phase = "demo" THEN {demoInitialBalance} ELSE LoopBalances :
          /\ riskState' = initBalanceState(riskState, b)
          /\ \E ok \in BOOLEAN : saveState(ok)
          /\ highWater' = b
          /\ execBalance' = IF systemState.phase = "demo" THEN execBalance ELSE b
          /\ pc' = "loop"
          /\ systemState' = [systemState EXCEPT !.status = systemState.phase \o "_running"]
     \/ /\ systemState.phase = "real"       \* execIA.getBalance() throws
        /\ phaseError
        /\ UNCHANGED <<riskState, saveError, highWater, execBalance>>
  /\ UNCHANGED <<now, ret, lossRun, i, operation, amount, fusedSignal, tradeCount0, executed,
                 execVars, args, newsVars, fetchVars, diskVars>>

\* An iteration up to its first await: the pause check, the signals, the
\* news window.
loopIteration ==
  /\ cycleMayStart(pc)
  /\ i < TOTAL_OPERATIONS
  /\ systemState' = [systemState EXCEPT !.operationCount = i + 1]
  /\ riskState' = checkStatusState(riskState, now)
  /\ ret' = statusOf(riskState')
  /\ IF pauseExpired(riskState, now)
       THEN /\ \E ok \in BOOLEAN : saveState(ok)
            /\ lossRun' = 0
       ELSE /\ saveError' = FALSE
            /\ UNCHANGED lossRun
  /\ IF pausedSkip(ret')
       THEN pc' = "pausedDelay" /\ i' = i
            /\ fusedSignal' = null
       ELSE \E m \in ModuleReports, threw \in BOOLEAN, isNewsWindowActive \in BOOLEAN :
              IF isNewsWindowActive
                THEN pc' = "loop" /\ i' = i + 1 /\ fusedSignal' = null
                ELSE /\ pc' = "executeTrade" /\ i' = i
                     \* fuseSignals returns null from its catch block
                     /\ fusedSignal' = IF threw THEN null ELSE fuseSignals(signalsOf(m))
  /\ UNCHANGED <<now, highWater, operation, execBalance, amount, tradeCount0, executed,
                 execVars, args, newsVars, fetchVars, diskVars>>

\* `await delay(60000); continue;`
pausedDelay ==
  /\ pc = "pausedDelay"
  /\ now' = now + PAUSED_DELAY
  /\ i' = i + 1
  /\ pc' = "loop"
  /\ UNCHANGED <<ret, riskVars, systemState, operation, execBalance, amount, fusedSignal, tradeCount0, executed,
                 execVars, args, newsVars, fetchVars, diskVars>>

\* `if (operation.result === 'win') winCount++; else lossCount++;`
countResult(st, result) ==
  IF result = "win"
    THEN [st EXCEPT !.winCount = @ + 1]
    ELSE [st EXCEPT !.lossCount = @ + 1]

\* `await execIA.executeTrade(fusedSignal)` and the win/loss count.  The
\* order goes to the broker with `amount: lotSize`.  The call throws when
\* the broker cannot be reached or the fused signal is null (no order is
\* sent), or when the order is refused or its result cannot be had (the
\* order was sent).
executeTrade ==
  /\ pc = "executeTrade"
  /\ \/ \E result \in Results :
          /\ fusedSignal # null
          /\ operation' = result
          /\ amount' = <<calculateLotSize(execBalance)>>
          /\ systemState' = countResult(systemState, result)
          /\ executed' = executed + 1
          /\ now' = now + TRADE_DURATION
          /\ pc' = "updateRisk"
     \/ /\ phaseError
        /\ UNCHANGED executed
        /\ \E sent \in {sent \in BOOLEAN : sent => fusedSignal # null} :
             amount' = IF sent THEN <<calculateLotSize(execBalance)>> ELSE amount
        /\ UNCHANGED <<operation, now>>
  /\ fusedSignal' = null
  /\ UNCHANGED <<ret, riskVars, i, execBalance, tradeCount0,
                 execVars, args, newsVars, fetchVars, diskVars>>

\* `execIA.getBalance()`, `await riskMapIA.updateBalance(newBalance)` and
\* `riskMapIA.registerTrade(operation.result)`: registerTrade is not awaited,
\* but it changes the state before its first await.
updateRisk ==
  /\ pc = "updateRisk"
  /\ \/ \E newBalance \in LoopBalances :
          /\ riskState' = registerTradeState(
                              updateBalanceState(riskState, newBalance, now), operation, now)
          /\ \E ok \in BOOLEAN : saveState(ok)
          /\ highWater' = Max(highWater, newBalance)
          /\ lossRun' = IF operation = "loss" THEN lossRun + 1 ELSE 0
          /\ execBalance' = newBalance
          /\ pc' = "interval"
          /\ UNCHANGED systemState
     \/ /\ phaseError                        \* execIA.getBalance() throws
        /\ UNCHANGED <<riskVars, execBalance>>
  /\ UNCHANGED <<now, ret, i, operation, amount, fusedSignal, tradeCount0, executed,
                 execVars, args, newsVars, fetchVars, diskVars>>

\* `if (i < TOTAL_OPERATIONS - 1) await delay(OPERATION_INTERVAL)`, then i++.
operationInterval ==
  /\ pc = "interval"
  /\ now' = IF i < TOTAL_OPERATIONS - 1 THEN now + OPERATION_INTERVAL ELSE now
  /\ i' = i + 1
  /\ operation' = "none"
  /\ pc' = "loop"
  /\ UNCHANGED <<ret, riskVars, systemState, execBalance, amount, fusedSignal, tradeCount0, executed,
                 execVars, args, newsVars, fetchVars, diskVars>>

\* After the loop: the status, the final balance and the report, either of
\* which may throw.
phaseEnd ==
  /\ pc = "loop"
  /\ i >= TOTAL_OPERATIONS
  /\ \/ /\ pc' = "done"
        /\ systemState' = [systemState EXCEPT !.status = systemState.phase \o "_completed"]
     \/ phaseError
  /\ UNCHANGED <<now, ret, riskVars, i, operation, execBalance, amount, fusedSignal, tradeCount0, executed,
                 execVars, args, newsVars, fetchVars, diskVars>>

InitLoop ==
  /\ now = 0
  /\ ret = null
  /\ riskState \in restoredRiskStates
  /\ saveError = FALSE
  /\ highWater = riskState.balance
  /\ lossRun = riskState.lossesInRow
  /\ pc = "start" /\ i = 0 /\ operation = "none"
  /\ execBalance \in BrokerBalances /\ amount = null
  /\ fusedSignal = null
  /\ tradeCount0 = riskState.tradeCount
  /\ executed = 0
  /\ \E phase \in {"demo", "real"} :
       systemState = [phase |-> phase, operationCount |-> 0, winCount |-> 0,
                      lossCount |-> 0, status |-> "modules_ready"]
  /\ execIdle
  /\ newsIdle
  /\ fetchIdle
  /\ diskIdle
  /\ args = null

NextLoop ==
  \/ phaseStart
  \/ loopIteration
  \/ pausedDelay
  \/ executeTrade
  \/ updateRisk
  \/ operationInterval
  \/ phaseEnd

SpecLoop == InitLoop /\ [][NextLoop]_vars

\* Every await of the phase settles: the timers fire and the calls to the
\* modules return or throw.
SpecLoopLive ==
  SpecLoop /\ WF_vars(phaseStart) /\ WF_vars(loopIteration) /\ WF_vars(pausedDelay)
           /\ WF_vars(executeTrade) /\ WF_vars(updateRisk)
           /\ WF_vars(operationInterval) /\ WF_vars(phaseEnd)

\* The process has ended with process.exit(1).
processExited == pc = "error"

(***************************************************************************)
(* Properties of the orchestration loop, checked under SpecLoop.           *)
(***************************************************************************)

\* C2: executeTrade is called only in an iteration whose checkStatus()
\* reported isPaused = false, and never while the risk module is paused.
C2_NoTradeWhilePaused ==
  pc = "executeTrade" => /\ ret # null
                         /\ ~ret.isPaused
                         /\ ~riskState.isPaused
                         /\ ~(riskState.pauseUntil # null /\ now < riskState.pauseUntil[1])

\* C2's case: a breaker has tripped in this run and the loop is sitting out
\* a paused iteration.
C2_Witness ==
  /\ pc = "pausedDelay"
  /\ riskState.isPaused
  /\ riskState.pauseUntil # null
  /\ now < riskState.pauseUntil[1]
  /\ systemState.lossCount >= MAX_LOSS_STREAK

(***************************************************************************)
(* exec-ia (the refactored module, part_003 lines 1-175): the open-trade   *)
(* set.  A trade id is [kind |-> "sim", n |-> k] in backtest mode          *)
(* (`sim-<time>-<random>`) and of kind "live" for an id the broker gave.   *)
(* saveState here is saveJsonFile, which throws when the file cannot be    *)
(* written.                                                                *)
(***************************************************************************)
Symbols == {"EURUSD", "GBPUSD"}
Directions == {"CALL", "PUT"}
Stakes == {10}
ExpiryMinutes == {2 * TickMinutes}
TradeIds == [kind : {"sim", "live"}, n : 0..(MaxPlaced - 1)]

\* The rejection of a promise: what the caller catches.
Thrown(message) == [error |-> message]

\* A trade that expires the moment it is placed.
newTrade_NoExpiry(symbol, direction, stake, expiryMinutes, tradeId, t) ==
  [tradeId |-> tradeId, symbol |-> symbol, direction |-> direction, stake |-> stake,
   placedAt |-> ISO(t), expiryAt |-> ISO(t), status |-> "open"]

\* The trade object placeTrade builds.
newTrade(symbol, direction, stake, expiryMinutes, tradeId, t) ==
  [tradeId |-> tradeId, symbol |-> symbol, direction |-> direction, stake |-> stake,
   placedAt |-> ISO(t), expiryAt |-> ISO(t + expiryMinutes), status |-> "open"]

\* `trades.splice(trades.findIndex(t => t.tradeId === tradeId), 1)`: with an
\* id no trade has, the index is -1 and the last trade goes.
withoutTrade_Splice(trades, tradeId) ==
  IF \E k \in 1..Len(trades) : trades[k].tradeId = tradeId
    THEN SelectSeq(trades, LAMBDA t : t.tradeId # tradeId)
    ELSE SubSeq(trades, 1, Len(trades) - 1)

\* `state.openTrades.filter(t => t.tradeId !== tradeId)`
withoutTrade(trades, tradeId) == SelectSeq(trades, LAMBDA t : t.tradeId # tradeId)

placeTrade(symbol, direction, stake, expiryMinutes) ==
  /\ nextTradeId < MaxPlaced
  /\ IF backtestMode
       THEN \E saved \in BOOLEAN :
              LET id == [kind |-> "sim", n |-> nextTradeId]
              IN /\ openTrades' = Append(openTrades,
                                    newTrade(symbol, direction, stake, expiryMinutes, id, now))
                 /\ nextTradeId' = nextTradeId + 1
                 /\ ret' = IF saved THEN id ELSE Thrown("save")
       ELSE IF client # "connected"
         THEN /\ ret' = Thrown("not connected")
              /\ UNCHANGED <<openTrades, nextTradeId>>
         ELSE \/ /\ ret' = Thrown("buy")         \* iqOptionClient.buy rejects
                 /\ UNCHANGED <<openTrades, nextTradeId>>
              \/ \E saved \in BOOLEAN :
                   LET id == [kind |-> "live", n |-> nextTradeId]
                   IN /\ openTrades' = Append(openTrades,
                                      newTrade(symbol, direction, stake, expiryMinutes, id, now))
                      /\ nextTradeId' = nextTradeId + 1
                      /\ ret' = IF saved THEN id ELSE Thrown("save")
  /\ args' = [symbol |-> symbol, direction |-> direction, stake |-> stake,
               expiryMinutes |-> expiryMinutes]
  /\ checked' = null
  /\ removed' = null
  /\ UNCHANGED <<now, riskVars, loopVars, backtestMode, client, reportedClosed, queried, newsVars, fetchVars, diskVars>>

\* The profit of a simulated trade, in hundredths: a payout of 85%.
simulatedProfit(stake, isWin) == IF isWin THEN stake * 85 ELSE -(stake * 100)

\* `new Date() < new Date(trade.expiryAt)`, one minute past the expiry.
notExpired_UntilAfter(trade, t) == t <= DateOf(trade.expiryAt)

\* `new Date() < new Date(trade.expiryAt)`
notExpired(trade, t) == t < DateOf(trade.expiryAt)

\* A failed query that closes the trade as a loss.
onQueryFailure_ForcesClose(trade) ==
  [status |-> "closed", result |-> "loss", profit |-> simulatedProfit(trade.stake, FALSE)]

\* The catch block of the live branch: the trade is taken to be still open.
onQueryFailure(trade) == [status |-> "open"]

\* What a checkTradeResult call leaves behind: its trade, and whether
\* iqOptionClient.getTradeResult was called ("none": it was not) and
\* "resolved" or "rejected".
Checked(trade, query) == [trade |-> trade, query |-> query]

checkTradeResult(trade) ==
  /\ IF notExpired(trade, now)
       THEN /\ ret' = [status |-> "open"]
            /\ checked' = Checked(trade, "none")
       ELSE IF backtestMode
         THEN /\ \E isWin \in BOOLEAN :
                   ret' = [status |-> "closed", result |-> IF isWin THEN "win" ELSE "loss",
                           profit |-> simulatedProfit(trade.stake, isWin)]
              /\ checked' = Checked(trade, "none")
         ELSE IF client = "none"
           THEN /\ ret' = Thrown("not connected")
                /\ checked' = Checked(trade, "none")
           ELSE \/ /\ ret' = onQueryFailure(trade)     \* getTradeResult rejects
                   /\ checked' = Checked(trade, "rejected")
                \/ /\ \E isWin \in BOOLEAN :
                        ret' = [status |-> "closed",
                                result |-> IF isWin THEN "win" ELSE "loss",
                                profit |-> simulatedProfit(trade.stake, isWin)]
                   /\ checked' = Checked(trade, "resolved")
  /\ reportedClosed' = IF "status" \in DOMAIN ret' /\ ret'.status = "closed"
                         THEN reportedClosed \cup {trade.tradeId}
                         ELSE reportedClosed
  /\ queried' = IF checked'.query = "none" THEN queried
                ELSE queried \cup {trade.tradeId}
  /\ args' = null
  /\ removed' = null
  /\ UNCHANGED <<now, riskVars, loopVars, openTrades, backtestMode, client, nextTradeId,
                 newsVars, fetchVars, diskVars>>

removeTrade(tradeId) ==
  /\ openTrades' = withoutTrade(openTrades, tradeId)
  /\ \E saved \in BOOLEAN : ret' = IF saved THEN null ELSE Thrown("save")
  /\ args' = null
  /\ checked' = null
  /\ removed' = tradeId
  /\ UNCHANGED <<now, riskVars, loopVars, backtestMode, client, nextTradeId, reportedClosed, queried,
                 newsVars, fetchVars, diskVars>>

\* The connection to the broker drops or comes back.
connectionChange ==
  /\ client # "none"
  /\ client' = IF client = "connected" THEN "disconnected" ELSE "connected"
  /\ ret' = null
  /\ args' = null
  /\ checked' = null
  /\ removed' = null
  /\ UNCHANGED <<now, riskVars, loopVars, openTrades, backtestMode, nextTradeId,
                 reportedClosed, queried, newsVars, fetchVars, diskVars>>

AdvanceExec ==
  /\ now + TickMinutes <= MaxTime
  /\ now' = now + TickMinutes
  /\ ret' = null
  /\ args' = null
  /\ checked' = null
  /\ removed' = null
  /\ UNCHANGED <<riskVars, loopVars, openTrades, backtestMode, client, nextTradeId,
                 reportedClosed, queried, newsVars, fetchVars, diskVars>>

\* After init: no state file, and in live mode a connected client.
InitExec ==
  /\ now = 0
  /\ ret = null
  /\ riskIdle
  /\ loopIdle
  /\ openTrades = <<>>
  /\ backtestMode \in BOOLEAN
  /\ client = IF backtestMode THEN "none" ELSE "connected"
  /\ nextTradeId = 0
  /\ checked = null
  /\ reportedClosed = {}
  /\ queried = {}
  /\ removed = null
  /\ newsIdle
  /\ fetchIdle
  /\ diskIdle
  /\ args = null

\* The ids removeTrade is called with: those this mode hands out, whether
\* handed out yet, still open, or removed before.
RemovableIds == { id \in TradeIds : id.kind = IF backtestMode THEN "sim" ELSE "live" }

NextExec ==
  \/ \E symbol \in Symbols, direction \in Directions, stake \in Stakes,
        expiryMinutes \in ExpiryMinutes :
       placeTrade(symbol, direction, stake, expiryMinutes)
  \/ \E k \in 1..Len(openTrades) : checkTradeResult(openTrades[k])
  \/ \E tradeId \in RemovableIds : removeTrade(tradeId)
  \/ connectionChange
  \/ AdvanceExec

SpecExec == InitExec /\ [][NextExec]_vars

(***************************************************************************)
(* Properties of exec-ia, checked under SpecExec.                          *)
(***************************************************************************)

\* C1: the open-trade set never holds two open trades with the same symbol
\* and the same direction.
C1_OneOpenTradePerSymbolDirection ==
  \A j, k \in 1..Len(openTrades) :
    ( /\ openTrades[j].symbol = openTrades[k].symbol
      /\ openTrades[j].direction = openTrades[k].direction ) => j = k

(***************************************************************************)
(* signalrank-ia (the refactored module, part_002): getFinalScore.         *)
(* Scores and penalties are in tenths, weights in tenths, and so the final *)
(* score is in hundredths.  The `reason` string is left out.               *)
(***************************************************************************)
WEIGHT_TECH == 5
WEIGHT_SENT == 2
WEIGHT_PRED == 2
WEIGHT_VOL_PENALTY == 1
MIN_SIGNAL_SCORE == 70
COOLDOWN_MINUTES == 15

\* A missing string property.
undefined == "undefined"

\* A timestamp of the cooldown map is null (no entry) or <<t>>.  JavaScript
\* truthiness of it: undefined and 0 are falsy.
truthy(x) == x # null /\ x[1] # 0

\* `signals.tech?.direction`, `signals.tech?.score || 0` and the like.
directionOf(signal) == IF signal = null THEN undefined ELSE signal.direction
scoreOf(signal) == IF signal = null THEN 0 ELSE signal.score
penaltyOf(signal) == IF signal = null THEN 0 ELSE signal.penalty

\* A test that knows HOLD but not a missing direction.
primaryIsHold_OnlyHold(primaryDirection) == primaryDirection = "HOLD"

\* `!primaryDirection || primaryDirection === 'HOLD'`
primaryIsHold(primaryDirection) ==
  primaryDirection = undefined \/ primaryDirection = "HOLD"

\* A de-duplication that looks at the symbol only.
hasOpenTrade_AnyDirection(trades, symbol, primaryDirection) ==
  \E trade \in trades : trade.symbol = symbol

\* `openTrades.some(trade => trade.symbol === symbol && trade.direction === primaryDirection)`
hasOpenTrade(trades, symbol, primaryDirection) ==
  \E trade \in trades : trade.symbol = symbol /\ trade.direction = primaryDirection

\* The cooldown gate: `if (lastTradeTime) { ... if (diffMinutes < cooldownMinutes) ...}`
cooldownActive(lastTradeTimes, symbol, primaryDirection, t) ==
  LET cooldownKey == <<symbol, primaryDirection>>
      lastTradeTime == IF cooldownKey \in DOMAIN lastTradeTimes
                         THEN lastTradeTimes[cooldownKey] ELSE null
  IN truthy(lastTradeTime) /\ t - lastTradeTime[1] < COOLDOWN_MINUTES

\* A secondary signal that counts for nothing when it disagrees.
signedScore_DropsDisagreement(signal, primaryDirection) ==
  IF directionOf(signal) = primaryDirection THEN scoreOf(signal) ELSE 0

\* A secondary signal's score, negative when its direction is not the primary one.
signedScore(signal, primaryDirection) ==
  (IF directionOf(signal) = primaryDirection THEN 1 ELSE -1) * scoreOf(signal)

\* The weighted sum less the volatility penalty.
weightedScore(signals, primaryDirection) ==
  WEIGHT_TECH * scoreOf(signals.tech)
  + WEIGHT_SENT * signedScore(signals.sent, primaryDirection)
  + WEIGHT_PRED * signedScore(signals.pred, primaryDirection)
  - WEIGHT_VOL_PENALTY * penaltyOf(signals.vol)

\* `Math.max(0, Math.min(1, finalScore))`
normalized(score) == IF score < 0 THEN 0 ELSE IF score > 100 THEN 100 ELSE score

HoldResult == [finalScore |-> 0, direction |-> "HOLD"]

\* A threshold that also turns away a score equal to it.
belowThreshold_Inclusive(normalizedScore) == normalizedScore <= MIN_SIGNAL_SCORE

\* `normalizedScore < config.minSignalScore`
belowThreshold(normalizedScore) == normalizedScore < MIN_SIGNAL_SCORE

getFinalScoreResult(a, t) ==
  LET primaryDirection == directionOf(a.signals.tech)
  IN IF primaryIsHold(primaryDirection) THEN HoldResult
     ELSE IF hasOpenTrade(a.openTrades, a.symbol, primaryDirection) THEN HoldResult
     ELSE IF cooldownActive(a.lastTradeTimes, a.symbol, primaryDirection, t) THEN HoldResult
     ELSE LET normalizedScore == normalized(weightedScore(a.signals, primaryDirection))
          IN IF belowThreshold(normalizedScore)
               THEN [finalScore |-> normalizedScore, direction |-> "HOLD"]
               ELSE [finalScore |-> normalizedScore, direction |-> primaryDirection]

getFinalScore ==
  /\ args # null
  /\ ret' = getFinalScoreResult(args, now)
  /\ UNCHANGED <<now, riskVars, loopVars, execVars, args, newsVars, fetchVars, diskVars>>

\* The inputs the calls are drawn from.
\* A score of 14 tenths is outside the range a producer should report; it
\* is what takes the weighted sum above 1.
TechSignals == {null} \cup [direction : {undefined, "HOLD", "CALL", "PUT"}, score : {0, 6, 10, 14}]
SecondarySignals == {null} \cup [direction : {undefined, "CALL", "PUT"}, score : {10}]
VolSignals == {null} \cup [penalty : {10}]
TradeInputs == SUBSET { [symbol |-> "EURUSD", direction |-> "CALL"],
                        [symbol |-> "EURUSD", direction |-> "PUT"],
                        [symbol |-> "GBPUSD", direction |-> "CALL"] }
LastTradeTimeInputs ==
  { [k \in {<<"EURUSD", "CALL">>, <<"EURUSD", "PUT">>} |->
       IF k[2] = "CALL" THEN c ELSE p] : c \in {null, <<0>>, <<5>>}, p \in {null, <<5>>} }
CallTimes == {10, 20}

InitFusion ==
  /\ now \in CallTimes
  /\ ret = null
  /\ riskIdle
  /\ loopIdle
  /\ execIdle
  /\ newsIdle
  /\ fetchIdle
  /\ diskIdle
  /\ args \in [signals : [tech : TechSignals, sent : SecondarySignals,
                           pred : SecondarySignals, vol : VolSignals],
                openTrades : TradeInputs,
                lastTradeTimes : LastTradeTimeInputs,
                symbol : Symbols]

NextFusion == getFinalScore

SpecFusion == InitFusion /\ [][NextFusion]_vars

(***************************************************************************)
(* riskmap-ia (the refactored module, part_009): assessRisk, with the      *)
(* calendar feed of scraping-forexfactory.js that supplies its events.     *)
(* A JavaScript array is Array(S), the order of its items left out; a      *)
(* number that may be missing is null or <<n>>.  Stake percentages are in  *)
(* hundredths of a percent.  The `reason` string is left out.              *)
(***************************************************************************)
NEWS_WINDOW_MINUTES == 30
DEFAULT_RISK_PCT == 100
MAX_ATR_THRESHOLD == 150
UPCOMING_WINDOW_MINUTES == 60

Array(S) == [items |-> S]

\* `Math.abs((eventTime - now) / (1000 * 60))`
Abs(n) == IF n < 0 THEN -n ELSE n

\* config.reducedRiskPct: `(parseFloat(process.env.MAX_RISK_PCT) || 1.0) / 2`
REDUCED_RISK_PCT == DEFAULT_RISK_PCT \div 2

\* A window that leaves out its two ends.
inNewsWindow_Strict(event, t) ==
  event.timeUTC # null /\ Abs(event.timeUTC[1] - t) < NEWS_WINDOW_MINUTES

\* `diffMinutes <= config.newsWindowMinutes`; an event whose time does not
\* parse gives NaN, which compares false.
inNewsWindow(event, t) ==
  event.timeUTC # null /\ Abs(event.timeUTC[1] - t) <= NEWS_WINDOW_MINUTES

\* A volatility test that takes the threshold itself for high.
atrHigh_Inclusive(indicators) ==
  /\ indicators # null
  /\ indicators.atr # null /\ indicators.atr[1] # 0
  /\ indicators.atr[1] >= MAX_ATR_THRESHOLD

\* `indicators && indicators.atr && indicators.atr > config.maxAtrThreshold`
atrHigh(indicators) ==
  /\ indicators # null
  /\ indicators.atr # null /\ indicators.atr[1] # 0
  /\ indicators.atr[1] > MAX_ATR_THRESHOLD

assessRiskResult(a, t) ==
  IF /\ a.upcomingEvents # null
     /\ \E event \in a.upcomingEvents.items : inNewsWindow(event, t)
    THEN [allowed |-> FALSE, recommendedStakePct |-> 0]
    ELSE [allowed |-> TRUE,
          recommendedStakePct |-> IF atrHigh(a.indicators) THEN REDUCED_RISK_PCT
                                                           ELSE DEFAULT_RISK_PCT]

\* `event.impact === 'high' && eventDate > now && eventDate <= futureLimit`
upcomingHighImpact(events, windowMinutes, t) ==
  { event \in events : /\ event.impact = "high"
                       /\ event.timeUTC # null
                       /\ event.timeUTC[1] > t
                       /\ event.timeUTC[1] <= t + windowMinutes }

\* The events the site can serve, and the events a caller can pass.
EventTimes == {10, 40, 71}
FeedPool == [timeUTC : {ISO(t) : t \in EventTimes}, impact : {"high"}]
              \cup {[timeUTC |-> ISO(71), impact |-> "low"]}
EventPool == FeedPool \cup {[timeUTC |-> null, impact |-> "high"]}
AtrValues == {0, MAX_ATR_THRESHOLD, MAX_ATR_THRESHOLD + 1}
Indicators == {null} \cup [atr : {null} \cup { <<atr>> : atr \in AtrValues }]
NewsTimes == {40, 41}

\* fetchEconomicCalendar: the calendar file is replaced when the page is
\* fetched, parsed and saved; a failure (caught) or a 304 leaves it.
fetchEconomicCalendar ==
  /\ \E served \in {null} \cup { Array(S) : S \in SUBSET FeedPool } :
       calendar' = IF served = null THEN calendar ELSE served
  /\ ret' = null
  /\ UNCHANGED <<now, riskVars, loopVars, execVars, args, upcomingEvents, feedUnavailable,
                 fetchVars, diskVars>>

\* getUpcomingHighImpactEvents: without a calendar file it fetches first
\* (the fetch's own failure handler can throw, on its state save); then it
\* reads the file, and on any failure to read it returns [].
getUpcomingHighImpactEvents(windowMinutes) ==
  \E served \in {null} \cup { Array(S) : S \in SUBSET FeedPool }, saved, readable \in BOOLEAN :
    LET fetched == IF calendar = null THEN served ELSE calendar
    IN /\ calendar' = fetched
       /\ IF calendar = null /\ served = null /\ ~saved
            THEN /\ ret' = Thrown("save")
                 /\ UNCHANGED <<upcomingEvents, feedUnavailable>>
            ELSE /\ feedUnavailable' = (fetched = null \/ ~readable)
                 /\ upcomingEvents' =
                      IF feedUnavailable' THEN Array({})
                      ELSE Array(upcomingHighImpact(fetched.items, windowMinutes, now))
                 /\ ret' = upcomingEvents'
       /\ UNCHANGED <<now, riskVars, loopVars, execVars, args,
                 fetchVars, diskVars>>

\* assessRisk called with the events the feed returned, or with events of
\* the caller's own (the list may be missing).
assessRisk(indicators) ==
  /\ \/ /\ upcomingEvents # null
        /\ args' = [upcomingEvents |-> upcomingEvents, indicators |-> indicators]
        /\ UNCHANGED feedUnavailable
     \/ /\ \E events \in {null} \cup { Array(S) : S \in SUBSET EventPool } :
             args' = [upcomingEvents |-> events, indicators |-> indicators]
        /\ feedUnavailable' = FALSE
  /\ ret' = assessRiskResult(args', now)
  /\ UNCHANGED <<now, riskVars, loopVars, execVars, calendar, upcomingEvents,
                 fetchVars, diskVars>>

InitNews ==
  /\ now \in NewsTimes
  /\ ret = null
  /\ riskIdle
  /\ loopIdle
  /\ execIdle
  /\ newsIdle
  /\ fetchIdle
  /\ diskIdle
  /\ args = null

NextNews ==
  \/ fetchEconomicCalendar
  \/ getUpcomingHighImpactEvents(UPCOMING_WINDOW_MINUTES)
  \/ \E indicators \in Indicators : assessRisk(indicators)

SpecNews == InitNews /\ [][NextNews]_vars

(***************************************************************************)
(* Properties of assessRisk and the calendar feed, checked under SpecNews. *)
(***************************************************************************)

\* The last call was assessRisk.
C13_Assessed == ret # null /\ "allowed" \in DOMAIN ret

\* Some event passed to assessRisk is scheduled within NEWS_WINDOW_MINUTES
\* before or after now.
C13_EventInWindow ==
  /\ args.upcomingEvents # null
  /\ \E event \in args.upcomingEvents.items :
       /\ event.timeUTC # null
       /\ event.timeUTC[1] - now <= NEWS_WINDOW_MINUTES
       /\ now - event.timeUTC[1] <= NEWS_WINDOW_MINUTES

\* C13: assessRisk returns allowed = false with recommendedStakePct = 0
\* when some event is scheduled within NEWS_WINDOW_MINUTES of now, and
\* allowed = true when none is.
C13_DeniedIffEventInWindow ==
  C13_Assessed =>
    IF C13_EventInWindow
      THEN ~ret.allowed /\ ret.recommendedStakePct = 0
      ELSE ret.allowed

\* C13's case: the only event near is exactly NEWS_WINDOW_MINUTES in the
\* past, and the call is denied.
C13_Witness ==
  /\ C13_Assessed
  /\ args.upcomingEvents # null
  /\ \E event \in args.upcomingEvents.items : event.timeUTC = ISO(now - NEWS_WINDOW_MINUTES)
  /\ \A event \in args.upcomingEvents.items :
       event.timeUTC # null => Abs(event.timeUTC[1] - now) >= NEWS_WINDOW_MINUTES
  /\ ~ret.allowed

\* C14: when the event list is missing, or comes from a calendar that
\* could not be read, assessRisk denies the trade.
C14_FailClosed ==
  ( C13_Assessed /\ (args.upcomingEvents = null \/ feedUnavailable) ) => ~ret.allowed

\* C15: with no event in the window assessRisk allows the trade; the stake
\* is DEFAULT_RISK_PCT when the ATR is missing or at most
\* MAX_ATR_THRESHOLD, and half of it when the ATR is above.
C15_HighAtrHalvesStake ==
  ( C13_Assessed /\ ~C13_EventInWindow ) =>
    /\ ret.allowed
    /\ IF /\ args.indicators # null /\ args.indicators.atr # null
          /\ args.indicators.atr[1] > MAX_ATR_THRESHOLD
         THEN 2 * ret.recommendedStakePct = DEFAULT_RISK_PCT
         ELSE ret.recommendedStakePct = DEFAULT_RISK_PCT

\* C15's case: an ATR just above the threshold with events outside the
\* window only: allowed, at half the stake.
C15_Witness ==
  /\ C13_Assessed
  /\ args.upcomingEvents # null /\ args.upcomingEvents.items # {}
  /\ ~C13_EventInWindow
  /\ args.indicators # null /\ args.indicators.atr # null
  /\ args.indicators.atr[1] = MAX_ATR_THRESHOLD + 1
  /\ ret.allowed
  /\ ret.recommendedStakePct = REDUCED_RISK_PCT

(***************************************************************************)
(* compound-logic.js: calculateStake.  A JavaScript value is a record      *)
(* [kind, n]: a finite number n, NaN, Infinity, -Infinity, undefined or a  *)
(* string.  A bankroll is in whole units of money, a percentage in         *)
(* hundredths of a percent (as assessRisk gives it), so that their product *)
(* is the raw stake in ten-thousandths of a unit; the stake returned is in *)
(* hundredths of a unit (cents).                                           *)
(***************************************************************************)
DEFAULT_BANKROLL == 1000
MIN_STAKE_ABSOLUTE == 100
MAX_STAKE_ABSOLUTE == 10000

Finite(n) == [kind |-> "finite", n |-> n]
NotFinite(kind) == [kind |-> kind, n |-> 0]
NaN == NotFinite("NaN")

\* `typeof v !== 'number'`
notNumber(v) == v.kind \in {"undefined", "string"}

\* `v <= 0` and `v < 0`; NaN compares false.
atMostZero(v) == (v.kind = "finite" /\ v.n <= 0) \/ v.kind = "-Infinity"
belowZero(v) == (v.kind = "finite" /\ v.n < 0) \/ v.kind = "-Infinity"

\* The default value of the `bankroll` parameter.
bankrollOf(a) ==
  IF a.bankroll.kind = "undefined" THEN Finite(DEFAULT_BANKROLL) ELSE a.bankroll

\* `bankroll * (recommendedStakePct / 100)` for a bankroll and a percentage
\* that passed the two checks, in ten-thousandths of a unit.
rawStake(bankroll, pct) ==
  IF bankroll.kind = "NaN" \/ pct.kind = "NaN" THEN NaN
  ELSE IF bankroll.kind = "Infinity"
         THEN IF pct.kind = "finite" /\ pct.n = 0 THEN NaN ELSE NotFinite("Infinity")
  ELSE IF pct.kind = "Infinity" THEN NotFinite("Infinity")
  ELSE Finite(bankroll.n * pct.n)

\* `Math.max(minStakeAbsolute, Math.min(rawStake, maxStakeAbsolute))`, in
\* ten-thousandths of a unit; NaN stays NaN.
clampedStake(raw) ==
  IF raw.kind = "NaN" THEN NaN
  ELSE IF raw.kind = "Infinity" \/ raw.n > MAX_STAKE_ABSOLUTE * 100
         THEN Finite(MAX_STAKE_ABSOLUTE * 100)
  ELSE IF raw.n < MIN_STAKE_ABSOLUTE * 100 THEN Finite(MIN_STAKE_ABSOLUTE * 100)
  ELSE raw

\* A rounding that drops the part below a cent.
roundCents_Truncating(v) == IF v.kind = "NaN" THEN NaN ELSE Finite(v.n \div 100)

\* `Math.round(clampedStake * 100) / 100`, in cents.
roundCents(v) == IF v.kind = "NaN" THEN NaN ELSE Finite((v.n + 50) \div 100)

\* `typeof recommendedStakePct !== 'number' || recommendedStakePct < 0`
pctInvalid(pct) == notNumber(pct) \/ belowZero(pct)

\* `typeof bankroll !== 'number' || bankroll <= 0`
bankrollInvalid(bankroll) == notNumber(bankroll) \/ atMostZero(bankroll)

calculateStakeResult(a) ==
  IF bankrollInvalid(bankrollOf(a)) THEN Thrown("bankroll")
  ELSE IF pctInvalid(a.recommendedStakePct) THEN Thrown("recommendedStakePct")
  ELSE roundCents(clampedStake(rawStake(bankrollOf(a), a.recommendedStakePct)))

calculateStake ==
  /\ args # null
  /\ ret' = calculateStakeResult(args)
  /\ UNCHANGED <<now, riskVars, loopVars, execVars, args, newsVars, fetchVars, diskVars>>

\* The inputs the calls are drawn from.
OtherValues == {NotFinite(k) : k \in {"NaN", "Infinity", "-Infinity", "undefined", "string"}}
BankrollInputs == OtherValues \cup {Finite(n) : n \in {-5, 0, 77, 1000, 1237, 20000}}
PctInputs == OtherValues \cup {Finite(n) : n \in {-100, 0, 1, 34, 100, 5000}}

InitStake ==
  /\ now = 0
  /\ ret = null
  /\ riskIdle
  /\ loopIdle
  /\ execIdle
  /\ newsIdle
  /\ fetchIdle
  /\ diskIdle
  /\ args \in [bankroll : BankrollInputs, recommendedStakePct : PctInputs]

NextStake == calculateStake

SpecStake == InitStake /\ [][NextStake]_vars

(***************************************************************************)
(* Properties of calculateStake, checked under SpecStake.                  *)
(***************************************************************************)

\* The bankroll of the call is a positive finite number (the default one
\* when none is given).
C16_BankrollPositive ==
  \/ args.bankroll.kind = "undefined"
  \/ args.bankroll.kind = "finite" /\ args.bankroll.n > 0

\* The raw stake bankroll * recommendedStakePct / 100 of a call with finite
\* arguments, in ten-thousandths of a unit.
C16_Raw ==
  (IF args.bankroll.kind = "undefined" THEN DEFAULT_BANKROLL ELSE args.bankroll.n)
    * args.recommendedStakePct.n

\* C16: for a positive bankroll and a percentage >= 0, calculateStake
\* returns the raw stake rounded to the cent when the raw stake is within
\* [MIN_STAKE_ABSOLUTE, MAX_STAKE_ABSOLUTE], MIN_STAKE_ABSOLUTE when it is
\* below and MAX_STAKE_ABSOLUTE when it is above.
C16_StakeClamped ==
  ( /\ ret # null
    /\ C16_BankrollPositive
    /\ args.recommendedStakePct.kind = "finite" /\ args.recommendedStakePct.n >= 0 )
  => /\ ret = Finite(IF C16_Raw < MIN_STAKE_ABSOLUTE * 100 THEN MIN_STAKE_ABSOLUTE
                     ELSE IF C16_Raw > MAX_STAKE_ABSOLUTE * 100 THEN MAX_STAKE_ABSOLUTE
                     ELSE (C16_Raw + 50) \div 100)
     /\ ret.n >= MIN_STAKE_ABSOLUTE /\ ret.n <= MAX_STAKE_ABSOLUTE

\* C16's case: a raw stake of 4.2058 within the bounds, returned as 4.21.
C16_Witness ==
  /\ ret # null
  /\ args.bankroll = Finite(1237)
  /\ args.recommendedStakePct = Finite(34)
  /\ ret = Finite(421)

\* C17: calculateStake returns a finite stake above zero or throws, and it
\* throws whenever the bankroll is not a positive finite number or the
\* percentage is not a positive finite number.
C17_SizingError ==
  ret # null =>
    /\ "error" \in DOMAIN ret \/ (ret.kind = "finite" /\ ret.n > 0)
    /\ ( \/ ~C16_BankrollPositive
         \/ ~(args.recommendedStakePct.kind = "finite" /\ args.recommendedStakePct.n > 0) )
       => "error" \in DOMAIN ret

(***************************************************************************)
(* network-helpers (part_007 lines 259-298): fetchWithRetry.  A call is    *)
(* followed from one await to the next: an axios request that resolves or  *)
(* rejects, and the delay after a failure.                                 *)
(***************************************************************************)
DEFAULT_RETRIES == 3
DEFAULT_BACKOFF == 500
MaxRetries == 4

ErrorCodes == {"ECONNRESET", "ETIMEDOUT"}
Responses == { [status |-> 200, data |-> d] : d \in {"calendar", "prices"} }

\* `retries = 3, backoff = 500`: a parameter left out takes its default.
paramOr(given, default) == IF given = null THEN default ELSE given[1]

\* A loop that makes one request more.
attemptsLeft_Inclusive(k, n) == k <= n

\* `i < retries`
attemptsLeft(k, n) == k < n

\* The error thrown after the loop, with originalError = lastError.
errorContext(n, last) == [error |-> "fetch", originalError |-> last, retries |-> n]

\* `const response = await axios(...)` of iteration i: return it, or keep
\* the error and go on, to the delay unless this was the last iteration.
request ==
  /\ fetchPc = "loop"
  /\ attemptsLeft(fetchI, retries)
  /\ requests' = requests + 1
  /\ \/ \E response \in Responses :
          /\ ret' = response
          /\ fetchPc' = "returned"
          /\ UNCHANGED <<fetchI, lastError, errors>>
     \/ \E error \in ErrorCodes :
          /\ lastError' = <<error>>
          /\ errors' = Append(errors, error)
          /\ IF fetchI < retries - 1
               THEN fetchPc' = "delay" /\ fetchI' = fetchI
               ELSE fetchPc' = "loop" /\ fetchI' = fetchI + 1
          /\ UNCHANGED ret
  /\ UNCHANGED <<now, riskVars, loopVars, execVars, args, newsVars, fetchArgs, retries,
                 backoff, waited, diskVars>>

\* `await delay(backoff * (i + 1))`, then i++.
backoffDelay ==
  /\ fetchPc = "delay"
  /\ waited' = Append(waited, backoff * (fetchI + 1))
  /\ fetchI' = fetchI + 1
  /\ fetchPc' = "loop"
  /\ UNCHANGED <<now, ret, riskVars, loopVars, execVars, args, newsVars, fetchArgs, retries,
                 backoff, lastError, requests, errors, diskVars>>

\* After the loop: `throw errorContext`.
giveUp ==
  /\ fetchPc = "loop"
  /\ ~attemptsLeft(fetchI, retries)
  /\ ret' = errorContext(retries, lastError)
  /\ fetchPc' = "thrown"
  /\ UNCHANGED <<now, riskVars, loopVars, execVars, args, newsVars, fetchArgs, retries,
                 backoff, fetchI, lastError, requests, errors, waited, diskVars>>

\* The arguments the call is drawn from.
RetriesInputs == {null} \cup { <<n>> : n \in 0..MaxRetries }
BackoffInputs == {null, <<100>>}

\* fetchWithRetry(url, opts, retries, backoff) has been called.
InitFetch ==
  /\ now = 0
  /\ ret = null
  /\ riskIdle
  /\ loopIdle
  /\ execIdle
  /\ args = null
  /\ newsIdle
  /\ diskIdle
  /\ fetchArgs \in [retries : RetriesInputs, backoff : BackoffInputs]
  /\ retries = paramOr(fetchArgs.retries, DEFAULT_RETRIES)
  /\ backoff = paramOr(fetchArgs.backoff, DEFAULT_BACKOFF)
  /\ fetchPc = "loop"
  /\ fetchI = 0
  /\ lastError = null
  /\ requests = 0
  /\ errors = <<>>
  /\ waited = <<>>

NextFetch ==
  \/ request
  \/ backoffDelay
  \/ giveUp

SpecFetch == InitFetch /\ [][NextFetch]_vars

\* Every request settles and every timer fires.
SpecFetchLive ==
  SpecFetch /\ WF_vars(request) /\ WF_vars(backoffDelay) /\ WF_vars(giveUp)

\* The call has ended.
C29_Finished == fetchPc \in {"returned", "thrown"}

\* At most `retries` requests (3 when the argument is left out); a return
\* is the response of the first request that succeeded, all before it
\* having failed; a throw comes after exactly `retries` failures, with the
\* error of the last one as originalError.
C29_Bounded ==
  /\ requests <= retries
  /\ fetchArgs.retries = null => requests <= 3
  /\ fetchArgs.retries # null => requests <= fetchArgs.retries[1]
  /\ fetchPc = "returned" =>
       /\ ret \in Responses
       /\ Len(errors) = requests - 1
  /\ fetchPc = "thrown" =>
       /\ requests = retries
       /\ Len(errors) = retries
       /\ ret.retries = retries
       /\ retries > 0 => ret.originalError = <<errors[Len(errors)]>>

C36_WaitsDouble ==
  \A k \in 1..Len(waited) :
    waited[k] = IF k = 1 THEN backoff ELSE 2 * waited[k - 1]

(***************************************************************************)
(* riskmap-ia (part_010) with its state file: what saveState writes and    *)
(* what loadState, at the start of a process, reads back.  The file holds  *)
(* JSON.stringify(state): a number that is not finite is written as null.  *)
(***************************************************************************)
MaxSavedTrades == 1

\* The module state whole: riskState and the two fields it leaves out.
moduleState == [core |-> riskState, maxDrawdownPercent |-> maxDrawdownPercent,
                lastUpdate |-> lastUpdate]

\* JSON.stringify of a number: Infinity and NaN become null.
jsonNumber(v) == IF v.kind = "finite" THEN v ELSE null

\* A serialization that leaves the loss counter at 0.
stringify_DropsStreak(st) ==
  [isPaused |-> st.core.isPaused, lossesInRow |-> 0,
   tradeCount |-> st.core.tradeCount, maxLossStreak |-> st.core.maxLossStreak,
   pauseUntil |-> st.core.pauseUntil, lastUpdate |-> st.lastUpdate,
   balance |-> st.core.balance, initialBalance |-> st.core.initialBalance,
   maxDrawdown |-> st.core.maxDrawdown,
   maxDrawdownPercent |-> jsonNumber(st.maxDrawdownPercent)]

\* JSON.stringify(state), as JSON.parse gives it back.
stringify(st) ==
  [isPaused |-> st.core.isPaused, lossesInRow |-> st.core.lossesInRow,
   tradeCount |-> st.core.tradeCount, maxLossStreak |-> st.core.maxLossStreak,
   pauseUntil |-> st.core.pauseUntil, lastUpdate |-> st.lastUpdate,
   balance |-> st.core.balance, initialBalance |-> st.core.initialBalance,
   maxDrawdown |-> st.core.maxDrawdown,
   maxDrawdownPercent |-> jsonNumber(st.maxDrawdownPercent)]

\* `saved.x || d`: null gives the default; false, 0 and a null pauseUntil
\* are falsy too, and the defaults they give way to are themselves.
orDefault(v, d) == IF v = null THEN d ELSE v

\* The assignments of loadState.
restored(saved) ==
  [core |-> [isPaused |-> saved.isPaused, lossesInRow |-> saved.lossesInRow,
             tradeCount |-> saved.tradeCount, maxLossStreak |-> saved.maxLossStreak,
             pauseUntil |-> orDefault(saved.pauseUntil, null),
             balance |-> saved.balance, initialBalance |-> saved.initialBalance,
             maxDrawdown |-> saved.maxDrawdown],
   maxDrawdownPercent |-> orDefault(saved.maxDrawdownPercent, Ratio(0, 1)),
   lastUpdate |-> orDefault(saved.lastUpdate, null)]

\* updateBalance's `state.maxDrawdownPercent = drawdownPercent`, under the
\* same test as maxDrawdown.
maxDrawdownPercentAfter(s, percent, newBalance) ==
  LET drawdown == s.balance - newBalance
  IN IF drawdown > s.maxDrawdown THEN Ratio(drawdown, s.initialBalance) ELSE percent

\* The rest of saveState: lastUpdate is set, then the file is written and
\* renamed, unless that fails (saveError).
writeState ==
  /\ lastUpdate' = ISO(now)
  /\ stateFile' = IF saveError' THEN stateFile ELSE stringify(moduleState')
  /\ savedState' = IF saveError' THEN savedState ELSE moduleState'
  /\ loadLog' = "none"
  /\ UNCHANGED filesVars

\* The handlers with the file.
initBalanceSaved(b) ==
  /\ initBalance(b)
  /\ UNCHANGED maxDrawdownPercent
  /\ writeState

updateBalanceSaved(b) ==
  /\ updateBalance(b)
  /\ maxDrawdownPercent' = maxDrawdownPercentAfter(riskState, maxDrawdownPercent, b)
  /\ writeState

registerTradeSaved(result) ==
  /\ riskState.tradeCount < MaxSavedTrades
  /\ registerTrade(result)
  /\ UNCHANGED maxDrawdownPercent
  /\ writeState

checkStatusSaved ==
  /\ checkStatus
  /\ UNCHANGED maxDrawdownPercent
  /\ IF pauseExpired(riskState, now)
       THEN writeState
       ELSE loadLog' = "none" /\ UNCHANGED <<lastUpdate, stateFile, savedState, filesVars>>

\* initRiskMapIA at the start of a new process: the module state is the
\* default one, and loadState takes the fields of the file; without a file,
\* or when the file cannot be read, it saves the state it has.
initRiskMapIA ==
  /\ \E readable \in BOOLEAN :
       IF stateFile # null /\ readable
         THEN /\ riskState' = restored(stateFile).core
              /\ maxDrawdownPercent' = restored(stateFile).maxDrawdownPercent
              /\ lastUpdate' = restored(stateFile).lastUpdate
              /\ saveError' = FALSE
              /\ loadLog' = "loaded"
              /\ UNCHANGED <<stateFile, savedState>>
         ELSE /\ riskState' = defaultRiskState
              /\ maxDrawdownPercent' = Ratio(0, 1)
              /\ \E ok \in BOOLEAN : saveState(ok)
              /\ lastUpdate' = ISO(now)
              /\ stateFile' = IF saveError' THEN stateFile ELSE stringify(moduleState')
              /\ savedState' = IF saveError' THEN savedState ELSE moduleState'
              /\ loadLog' = IF stateFile = null THEN "created" ELSE "error"
  /\ highWater' = riskState'.balance
  /\ lossRun' = riskState'.lossesInRow
  /\ ret' = null
  /\ UNCHANGED <<now, loopVars, execVars, args, newsVars, fetchVars, filesVars>>

\* The clock advances between calls, here once.
AdvanceSaved ==
  /\ now < TickMinutes
  /\ Advance

PersistBalances == {MaxBalance - 2, MaxBalance}

InitPersist ==
  /\ now = 0
  /\ ret = null
  /\ riskIdle
  /\ loopIdle
  /\ execIdle
  /\ args = null
  /\ newsIdle
  /\ fetchIdle
  /\ diskIdle

NextPersist ==
  \/ \E b \in PersistBalances : initBalanceSaved(b)
  \/ \E b \in PersistBalances : updateBalanceSaved(b)
  \/ \E r \in Results : registerTradeSaved(r)
  \/ checkStatusSaved
  \/ initRiskMapIA
  \/ AdvanceSaved

SpecPersist == InitPersist /\ [][NextPersist]_vars

\* C30: a state saved and loaded back is equal, field for field, to the
\* state saved, lastUpdate apart: after a loadState that read the file,
\* the module state is the state the last successful saveState wrote.
C30_RoundTrip ==
  loadLog = "loaded" =>
    /\ riskState = savedState.core
    /\ maxDrawdownPercent = savedState.maxDrawdownPercent

(***************************************************************************)
(* The state files write by write.  saveState (riskmap-ia) and             *)
(* saveJsonFile write JSON.stringify(state) to `<file>.tmp` and rename it  *)
(* over the file.  fs.writeFile opens the temporary file with flag 'w',    *)
(* which creates or truncates it, writes through the descriptor and closes *)
(* it; the open, the write and the rename are separate requests to the     *)
(* operating system, and the requests of two calls in flight interleave.   *)
(* A file keeps its content when its name changes, and a descriptor keeps  *)
(* its file.  The process may end at any point and a new one start.        *)
(***************************************************************************)
\* A file opened for writing to which nothing has been written yet: what
\* JSON.parse rejects.
Truncated == [partial |-> TRUE]

\* readFile gives the text and JSON.parse takes it.
wholeJson(file) == file # null /\ file # Truncated

\* The caller is not waiting on a saveState it awaited.
callerFree == \A q \in Savers : saves[q].pc = "idle" \/ ~saves[q].awaited

\* The slot a new call takes: the first one not in use.
freeSlot(p) ==
  /\ saves[p].pc = "idle"
  /\ \A q \in Savers : saves[q].pc = "idle" => p <= q

\* saveState up to its first await: lastUpdate is set and the state
\* serialized; the writeFile and the rename follow as steps of the slot.
callSaveState(p, awaited) ==
  /\ lastUpdate' = ISO(now)
  /\ saves' = [q \in Savers |->
                IF q = p THEN [pc |-> "open", data |-> stringify(moduleState'),
                               fd |-> "none", awaited |-> awaited]
                ELSE saves[q]]
  /\ serialized' = serialized \cup {stringify(moduleState')}
  /\ overlapped' = (overlapped \/ \E q \in Savers : saves[q].pc # "idle")

\* `riskMapIA.registerTrade(operation.result)` as the loop calls it, without
\* await: the caller goes on while the save is in flight.
registerTradeUnawaited(result, p) ==
  /\ callerFree
  /\ freeSlot(p)
  /\ riskState.tradeCount < MaxSavedTrades
  /\ registerTrade(result)
  /\ ~saveError'
  /\ UNCHANGED maxDrawdownPercent
  /\ callSaveState(p, FALSE)
  /\ loadLog' = "none"
  /\ UNCHANGED <<stateFile, savedState, tmpFile, execFile, execLoadLog>>

\* `await riskMapIA.updateBalance(newBalance)`.
updateBalanceAwaited(b, p) ==
  /\ callerFree
  /\ freeSlot(p)
  /\ updateBalance(b)
  /\ ~saveError'
  /\ maxDrawdownPercent' = maxDrawdownPercentAfter(riskState, maxDrawdownPercent, b)
  /\ callSaveState(p, TRUE)
  /\ loadLog' = "none"
  /\ UNCHANGED <<stateFile, savedState, tmpFile, execFile, execLoadLog>>

\* writeFile opens the temporary file: it is created, or emptied if there.
openTmp(p) ==
  /\ saves[p].pc = "open"
  /\ tmpFile' = Truncated
  /\ saves' = [saves EXCEPT ![p].pc = "write", ![p].fd = "tmp"]
  /\ UNCHANGED <<now, ret, riskVars, loopVars, execVars, args, newsVars, fetchVars,
                 maxDrawdownPercent, lastUpdate, stateFile, savedState, loadLog,
                 serialized, overlapped, execFile, execLoadLog>>

\* writeFile writes the text to the file its descriptor holds, wherever
\* that file is by now, and closes the descriptor.
writeTmp(p) ==
  /\ saves[p].pc = "write"
  /\ tmpFile' = IF saves[p].fd = "tmp" THEN saves[p].data ELSE tmpFile
  /\ stateFile' = IF saves[p].fd = "final" THEN saves[p].data ELSE stateFile
  /\ saves' = [saves EXCEPT ![p].pc = "rename", ![p].fd = "none"]
  /\ UNCHANGED <<now, ret, riskVars, loopVars, execVars, args, newsVars, fetchVars,
                 maxDrawdownPercent, lastUpdate, savedState, loadLog,
                 serialized, overlapped, execFile, execLoadLog>>

\* Where an open descriptor's file is after a rename of the temporary file
\* over the state file.
afterRename(fd) ==
  IF fd = "tmp" THEN "final" ELSE IF fd = "final" THEN "unlinked" ELSE fd

\* `await fs.rename(tempFile, STATE_FILE)`: without a temporary file the
\* rename fails, and saveState's catch block logs the error.
renameTmp(p) ==
  /\ saves[p].pc = "rename"
  /\ IF tmpFile = null
       THEN /\ saveError' = TRUE
            /\ saves' = [saves EXCEPT ![p] = IdleSave]
            /\ UNCHANGED <<tmpFile, stateFile>>
       ELSE /\ stateFile' = tmpFile
            /\ tmpFile' = null
            /\ saves' = [q \in Savers |->
                          IF q = p THEN IdleSave
                          ELSE [saves[q] EXCEPT !.fd = afterRename(@)]]
            /\ UNCHANGED saveError
  /\ UNCHANGED <<now, ret, riskState, highWater, lossRun, loopVars, execVars, args,
                 newsVars, fetchVars, maxDrawdownPercent, lastUpdate, savedState, loadLog,
                 serialized, overlapped, execFile, execLoadLog>>

\* A loadState whose catch block throws the error on.
loadFailureResult_Rethrows == Thrown("load")

\* What loadState's caller gets when the file cannot be read or parsed: the
\* catch block logs, and nothing is thrown.
loadFailureResult == null

\* riskmap-ia's loadState at the start of a new process, the calls of the
\* old one gone: the fields of the file, or without a file that can be read
\* and parsed the default state, which it saves and awaits.
loadState ==
  /\ \E readable \in BOOLEAN :
       IF wholeJson(stateFile) /\ readable
         THEN /\ riskState' = restored(stateFile).core
              /\ maxDrawdownPercent' = restored(stateFile).maxDrawdownPercent
              /\ lastUpdate' = restored(stateFile).lastUpdate
              /\ loadLog' = "loaded"
              /\ ret' = null
              /\ saves' = [q \in Savers |-> IdleSave]
              /\ UNCHANGED serialized
         ELSE /\ riskState' = defaultRiskState
              /\ maxDrawdownPercent' = Ratio(0, 1)
              /\ lastUpdate' = ISO(now)
              /\ loadLog' = IF stateFile = null THEN "created" ELSE "error"
              /\ ret' = IF stateFile = null THEN null ELSE loadFailureResult
              /\ saves' = [q \in Savers |->
                            IF q = 1 THEN [pc |-> "open", data |-> stringify(moduleState'),
                                           fd |-> "none", awaited |-> TRUE]
                            ELSE IdleSave]
              /\ serialized' = serialized \cup {stringify(moduleState')}
  /\ saveError' = FALSE
  /\ highWater' = riskState'.balance
  /\ lossRun' = riskState'.lossesInRow
  /\ UNCHANGED <<now, loopVars, execVars, args, newsVars, fetchVars, stateFile, savedState,
                 tmpFile, overlapped, execFile, execLoadLog>>

\* exec-ia's init at the start of a new process: loadState merges the file
\* into the default state when the file is there and can be read and
\* parsed, and logs the error when it cannot; in live mode the connection
\* follows, whose failure init throws on.
execInit ==
  /\ execLoadLog = "none"
  /\ \E mode \in BOOLEAN, readable \in BOOLEAN, connects \in BOOLEAN :
       /\ backtestMode' = mode
       /\ IF execFile = null
            THEN openTrades' = <<>> /\ execLoadLog' = "missing"
            ELSE IF wholeJson(execFile) /\ readable
              THEN openTrades' = execFile.openTrades /\ execLoadLog' = "loaded"
              ELSE openTrades' = <<>> /\ execLoadLog' = "error"
       /\ client' = IF ~mode /\ connects THEN "connected" ELSE "none"
       /\ ret' = IF ~mode /\ ~connects THEN Thrown("connect") ELSE null
  /\ UNCHANGED <<now, riskVars, loopVars, nextTradeId, checked, reportedClosed, queried,
                 removed, args, newsVars, fetchVars, maxDrawdownPercent, lastUpdate,
                 stateFile, savedState, loadLog, tmpFile, saves, serialized, overlapped,
                 execFile>>

\* What an earlier process may have left as exec-ia-state.json.
ExecFiles ==
  {null, Truncated, [openTrades |-> <<>>],
   [openTrades |-> <<newTrade("EURUSD", "CALL", 10, 2 * TickMinutes,
                              [kind |-> "sim", n |-> 0], 0)>>]}

SaveBalances == {MaxBalance}
SaveResults == {"loss"}

InitSave ==
  /\ now = 0
  /\ ret = null
  /\ riskIdle
  /\ loopIdle
  /\ execIdle
  /\ args = null
  /\ newsIdle
  /\ fetchIdle
  /\ maxDrawdownPercent = Ratio(0, 1) /\ lastUpdate = null
  /\ stateFile = null /\ savedState = null /\ loadLog = "none"
  /\ tmpFile = null /\ saves = [p \in Savers |-> IdleSave]
  /\ serialized = {} /\ overlapped = FALSE
  /\ execFile \in ExecFiles /\ execLoadLog = "none"

NextSave ==
  \/ \E r \in SaveResults, p \in Savers : registerTradeUnawaited(r, p)
  \/ \E b \in SaveBalances, p \in Savers : updateBalanceAwaited(b, p)
  \/ \E p \in Savers : openTmp(p)
  \/ \E p \in Savers : writeTmp(p)
  \/ \E p \in Savers : renameTmp(p)
  \/ loadState
  \/ execInit

SpecSave == InitSave /\ [][NextSave]_vars

\* C32: at every instant, a crash in the middle of a save and saves that
\* overlap included, the state file is absent or holds, whole, the
\* serialization of a state that was saved before.
C32_StateFileWhole == stateFile = null \/ stateFile \in serialized

\* The same, for as long as no saveState has begun while another was in
\* flight.
C32_WholeWithoutOverlap == ~overlapped => C32_StateFileWhole

\* C31: when a state file is missing, cannot be read or is not valid JSON,
\* loadState raises nothing and the module goes on with its default state:
\* for riskmap-ia isPaused = false, lossesInRow = 0 and pauseUntil = null,
\* for exec-ia no open trade; and the initialization is left by no error
\* of the load.
C31_LoadFallsBackToDefaults ==
  /\ ( loadLog = "created" \/ loadLog = "error" ) =>
       /\ riskState = defaultRiskState
       /\ ~riskState.isPaused
       /\ riskState.lossesInRow = 0
       /\ riskState.pauseUntil = null
  /\ ( execLoadLog = "missing" \/ execLoadLog = "error" ) => openTrades = <<>>
  /\ ( loadLog # "none" \/ execLoadLog # "none" ) =>
       \/ ret = null
       \/ ~backtestMode /\ client = "none" /\ ret = Thrown("connect")

\* C31's case: a new process has found both state files cut short, a
\* riskmap-ia file that an earlier process with a trade on record had
\* written included, and both modules have started from their defaults.
C31_Witness ==
  /\ loadLog = "error"
  /\ stateFile = Truncated
  /\ \E json \in serialized : json.tradeCount > 0
  /\ execLoadLog = "error"
  /\ execFile = Truncated
  /\ riskState = defaultRiskState
  /\ openTrades = <<>>
  /\ backtestMode
  /\ ret = null

(***************************************************************************)
(* Properties of riskmap-ia's saves, checked under SpecPersist.            *)
(***************************************************************************)

\* The file holds the in-memory state, field by field, a number that is not
\* finite as JSON's null.
C37_FileHolds(file, core, percent, updated) ==
  /\ file.isPaused = core.isPaused
  /\ file.lossesInRow = core.lossesInRow
  /\ file.tradeCount = core.tradeCount
  /\ file.maxLossStreak = core.maxLossStreak
  /\ file.pauseUntil = core.pauseUntil
  /\ file.balance = core.balance
  /\ file.initialBalance = core.initialBalance
  /\ file.maxDrawdown = core.maxDrawdown
  /\ file.lastUpdate = updated
  /\ file.maxDrawdownPercent = IF percent.kind = "finite" THEN percent ELSE null

\* C37: when the write of the risk state fails, registerTrade,
\* updateBalance and checkStatus still complete without raising and the
\* state in memory keeps the change just made; and a save that succeeds
\* writes the whole state in memory as it then is, the changes of the
\* failed saves included.
C37_FailedSaveKeepsMemory ==
  [][ /\ \A b \in PersistBalances :
           updateBalanceSaved(b) =>
             /\ ret' = null
             /\ riskState' = updateBalanceState(riskState, b, now)
      /\ \A r \in Results :
           registerTradeSaved(r) =>
             /\ ret' = null
             /\ riskState' = registerTradeState(riskState, r, now)
      /\ checkStatusSaved =>
           /\ "isPaused" \in DOMAIN ret'
           /\ riskState' = checkStatusState(riskState, now)
      /\ ( stateFile' # stateFile /\ ~initRiskMapIA ) =>
           C37_FileHolds(stateFile', riskState', maxDrawdownPercent', lastUpdate')
      /\ ( saveError' /\ ~initRiskMapIA ) => stateFile' = stateFile ]_vars

\* C37's case: a first save has succeeded, then a trade has been registered
\* and its save has failed: the call has returned, the memory has the trade
\* and the file is behind it.
C37_Witness ==
  /\ saveError
  /\ ret = null
  /\ riskState.tradeCount = 1
  /\ riskState.lossesInRow = 1
  /\ stateFile # null
  /\ stateFile.tradeCount = 0
  /\ stateFile.balance = riskState.balance
  /\ riskState.balance = MaxBalance

(***************************************************************************)
(* Properties of the settlement poll, checked under SpecExec.              *)
(***************************************************************************)

\* C35: a poll of a trade before its expiryAt sends no result query, and
\* from expiryAt on the result query for a trade is sent once: no poll
\* sends one for a trade that a query was sent for before.
C35_QueryOnceAfterExpiry ==
  [][ ( checked' # null /\ checked'.query # "none" ) =>
        /\ now >= DateOf(checked'.trade.expiryAt)
        /\ checked'.trade.tradeId \notin queried ]_vars

(***************************************************************************)
(* riskmap-ia's handlers together with the calls that only read: getState  *)
(* of the same module and assessRisk of the refactored one, within one     *)
(* process.                                                                *)
(***************************************************************************)
\* `getState: () => ({ ...state })`: a copy of the ten fields.
getState ==
  /\ ret' = [isPaused |-> riskState.isPaused, lossesInRow |-> riskState.lossesInRow,
             tradeCount |-> riskState.tradeCount,
             maxLossStreak |-> riskState.maxLossStreak,
             pauseUntil |-> riskState.pauseUntil, lastUpdate |-> lastUpdate,
             balance |-> riskState.balance,
             initialBalance |-> riskState.initialBalance,
             maxDrawdown |-> riskState.maxDrawdown,
             maxDrawdownPercent |-> maxDrawdownPercent]
  /\ UNCHANGED <<now, riskVars, loopVars, execVars, args, newsVars, fetchVars, diskVars>>

\* assessRisk called on a reading of the indicators, without an event list.
assessRiskCall ==
  \E indicators \in {null, [atr |-> <<MAX_ATR_THRESHOLD + 1>>]} :
    /\ assessRisk(indicators)
    /\ args'.upcomingEvents = null

\* registerTrade with the file, up to MAX_LOSS_STREAK trades.
registerTradeRead(result) ==
  /\ riskState.tradeCount < MAX_LOSS_STREAK
  /\ registerTrade(result)
  /\ UNCHANGED maxDrawdownPercent
  /\ writeState

ReaderBalances == {MaxBalance - 2}

NextReaders ==
  \/ \E b \in {MaxBalance} : initBalanceSaved(b)
  \/ \E b \in ReaderBalances : updateBalanceSaved(b)
  \/ \E r \in Results : registerTradeRead(r)
  \/ checkStatusSaved
  \/ getState
  \/ assessRiskCall
  \/ AdvanceSaved

SpecReaders == InitPersist /\ [][NextReaders]_vars

\* A call that only reads: getState, assessRisk, and checkStatus when the
\* system is not paused or the pause has not expired.
C39_Reads ==
  \/ getState
  \/ assessRiskCall
  \/ checkStatusSaved /\ ~pauseExpired(riskState, now)

\* A call that may write: initBalance, updateBalance, registerTrade, and
\* checkStatus when the pause has expired.
C39_Writes ==
  \/ \E b \in {MaxBalance} : initBalanceSaved(b)
  \/ \E b \in ReaderBalances : updateBalanceSaved(b)
  \/ \E r \in Results : registerTradeRead(r)
  \/ checkStatusSaved /\ pauseExpired(riskState, now)

\* C39: the risk state (all ten fields) changes only in registerTrade,
\* updateBalance, initBalance and the expiry auto-clear of checkStatus;
\* checkStatus while not paused or before the pause has expired, assessRisk
\* and getState leave every field as it was.
C39_OnlyWritersChangeState ==
  [][ /\ C39_Reads => moduleState' = moduleState
      /\ moduleState' # moduleState => C39_Writes ]_vars

\* C39's case: getState has been called during a pause that checkStatus
\* has since left in place.
C39_Witness ==
  /\ riskState.isPaused
  /\ riskState.lossesInRow >= MAX_LOSS_STREAK
  /\ now < DateOf(riskState.pauseUntil)
  /\ "isPaused" \in DOMAIN ret
  /\ "lastUpdate" \notin DOMAIN ret
  /\ ret.isPaused
  /\ args # null

(***************************************************************************)
(* Properties of checkTradeResult and removeTrade, checked under SpecExec. *)
(***************************************************************************)

\* The last call was checkTradeResult and it returned a result, not an error.
C21_Reported == checked # null /\ "status" \in DOMAIN ret

C22_FailedQueryLeavesTradeOpen ==
  [][ checked' # null =>
        /\ checked'.query = "rejected" =>
             /\ ~backtestMode
             /\ ret' = [status |-> "open"]
             /\ openTrades' = openTrades
             /\ \E k \in 1..Len(openTrades') : openTrades'[k] = checked'.trade
        /\ ( "status" \in DOMAIN ret' /\ ret'.status = "closed" ) =>
             /\ checked'.query # "rejected"
             /\ ret'.result \in {"win", "loss"} ]_vars

\* C22's case: the query of an expired trade failed in live mode, the call
\* said 'open', and the trade is still among the open trades.
C22_Witness ==
  /\ ~backtestMode
  /\ checked # null
  /\ checked.query = "rejected"
  /\ now >= checked.trade.expiryAt[1]
  /\ ret = [status |-> "open"]
  /\ \E k \in 1..Len(openTrades) : openTrades[k] = checked.trade

\* Some open trade has this id.
C23_IsOpen(trades, tradeId) == \E k \in 1..Len(trades) : trades[k].tradeId = tradeId

\* What removeTrade(id) does to the open trades: the trades with another
\* id stay, in their order, and no trade with this id is left.
C23_Removes ==
  /\ ~C23_IsOpen(openTrades', removed')
  /\ openTrades' = SelectSeq(openTrades, LAMBDA t : t.tradeId # removed')
  /\ ~C23_IsOpen(openTrades, removed') => openTrades' = openTrades

C24_NoReopen ==
  ( C21_Reported /\ checked.trade.tradeId \in reportedClosed ) => ret.status # "open"

(***************************************************************************)
(* Properties of placeTrade, checked under SpecExec.                       *)
(***************************************************************************)

\* The step is a placeTrade call that failed: the caller got an error.
C20_PlaceTradeFailed ==
  /\ args' # null
  /\ ret' \in {Thrown("not connected"), Thrown("buy"), Thrown("save")}

\* C19: a placeTrade call that succeeds appends one trade to the open
\* trades, leaving the others as they were: a trade with status 'open', the
\* symbol, direction and stake of the call, placedAt = now and expiryAt =
\* placedAt + expiryMinutes; it returns that trade's id, a 'sim' id in
\* backtest mode.
C19_PlaceTradeAddsOneOpenTrade ==
  [][ ( args' # null /\ ~C20_PlaceTradeFailed ) =>
        /\ Len(openTrades') = Len(openTrades) + 1
        /\ SubSeq(openTrades', 1, Len(openTrades)) = openTrades
        /\ LET trade == openTrades'[Len(openTrades')]
           IN /\ trade.status = "open"
              /\ trade.symbol = args'.symbol
              /\ trade.direction = args'.direction
              /\ trade.stake = args'.stake
              /\ trade.placedAt = <<now>>
              /\ trade.expiryAt = <<now + args'.expiryMinutes>>
              /\ trade.tradeId = ret'
              /\ backtestMode => ret'.kind = "sim" ]_vars

\* C19's case: a second trade has been placed after time passed, in
\* backtest mode, and the first one is still there.
C19_Witness ==
  /\ backtestMode
  /\ args # null
  /\ Len(openTrades) = 2
  /\ ret = openTrades[2].tradeId
  /\ openTrades[1].placedAt = <<0>>
  /\ openTrades[2].placedAt = <<TickMinutes>>
  /\ openTrades[2].expiryAt = <<TickMinutes + args.expiryMinutes>>

\* C20: a placeTrade call that fails leaves the open trades exactly as they
\* were.
C20_FailedPlaceTradeAddsNothing ==
  [][ C20_PlaceTradeFailed => openTrades' = openTrades ]_vars

(***************************************************************************)
(* Properties of the orchestration loop, checked under SpecLoop.  A cycle  *)
(* is an iteration of the phase's for loop.                                *)
(***************************************************************************)

\* A cycle is under way: it waits out a pause, for its trade, for the new
\* balance or for the interval that ends it.
C25_InFlight == pc \in {"pausedDelay", "executeTrade", "updateRisk", "interval"}

C26_CycleErrorIsNotFatal ==
  [][ ( pc = "executeTrade" \/ pc = "updateRisk" ) =>
        /\ ~processExited'
        /\ pc' \in {"updateRisk", "interval", "loop"} ]_vars

\* C27: the loop dispatches a trade only for a fused signal that exists,
\* says CALL or PUT and has a confidence of at least MIN_CONFIDENCE.
C27_TradeOnlyOnClearedSignal ==
  [][ ( pc = "executeTrade" /\ pc' = "updateRisk" ) =>
        /\ fusedSignal # null
        /\ fusedSignal.action \in {"CALL", "PUT"}
        /\ fusedSignal.confidence >= MIN_CONFIDENCE ]_vars

\* The trades the loop has executed, and those registerTrade has counted.
C28_Executed == systemState.winCount + systemState.lossCount
C28_Registered == riskState.tradeCount - tradeCount0

C18_StakeWithinBounds ==
  amount # null => amount[1] >= MIN_STAKE_ABSOLUTE /\ amount[1] <= MAX_STAKE_ABSOLUTE

(***************************************************************************)
(* Properties of getFinalScore, checked under SpecFusion.                  *)
(***************************************************************************)

\* C9: when the technical signal is absent, has no direction or has
\* direction HOLD, getFinalScore returns direction HOLD with finalScore 0.
C9_PrimaryHoldGivesHold ==
  ( /\ ret # null
    /\ \/ args.signals.tech = null
       \/ args.signals.tech.direction = undefined
       \/ args.signals.tech.direction = "HOLD" )
  => ret.direction = "HOLD" /\ ret.finalScore = 0

\* C9's case: a call without a technical direction whose other signals and
\* technical score would clear the threshold, with no open trade.
C9_Witness ==
  /\ ret # null
  /\ args.signals.tech # null
  /\ args.signals.tech.direction = undefined
  /\ args.signals.tech.score = 10
  /\ args.signals.sent # null /\ args.signals.sent.direction = undefined
  /\ args.signals.pred # null /\ args.signals.pred.direction = undefined
  /\ args.signals.vol = null
  /\ args.openTrades = {}
  /\ ret.direction = "HOLD"

\* Some open trade has the evaluated symbol and the technical direction.
C10_Duplicate ==
  /\ args.signals.tech # null
  /\ args.signals.tech.direction \in Directions
  /\ \E trade \in args.openTrades :
       trade.symbol = args.symbol /\ trade.direction = args.signals.tech.direction

\* C10: with an open trade on the evaluated symbol in the technical
\* signal's direction, getFinalScore returns HOLD with finalScore 0; without
\* one, it returns what it returns when no trade is open at all.
C10_DuplicateGivesHold ==
  ret # null =>
    IF C10_Duplicate
      THEN ret.direction = "HOLD" /\ ret.finalScore = 0
      ELSE ret = getFinalScoreResult([args EXCEPT !.openTrades = {}], now)

\* C10's case: a duplicate is open and the scores alone would have given a
\* trade.
C10_Witness ==
  /\ ret # null
  /\ C10_Duplicate
  /\ ret.direction = "HOLD"
  /\ getFinalScoreResult([args EXCEPT !.openTrades = {}], now).direction \in Directions

\* The timestamp recorded for the evaluated symbol and the technical
\* direction: null when there is none.
C11_Recorded ==
  IF /\ args.signals.tech # null
     /\ args.signals.tech.direction \in Directions
     /\ <<args.symbol, args.signals.tech.direction>> \in DOMAIN args.lastTradeTimes
    THEN args.lastTradeTimes[<<args.symbol, args.signals.tech.direction>>]
    ELSE null

\* C11: with a timestamp t0 recorded for the symbol and the technical
\* direction, getFinalScore returns HOLD with finalScore 0 while
\* now - t0 < COOLDOWN_MINUTES, and from then on returns what it returns
\* with no timestamp recorded; t0 = 0 included.
C11_CooldownForcesHold ==
  ( ret # null /\ C11_Recorded # null ) =>
    IF now - C11_Recorded[1] < COOLDOWN_MINUTES
      THEN ret.direction = "HOLD" /\ ret.finalScore = 0
      ELSE ret = getFinalScoreResult(
                   [args EXCEPT !.lastTradeTimes = [k \in {} |-> null]], now)

\* Some gate ahead of the scoring has returned: the primary direction is
\* missing or HOLD, a duplicate is open, or the cooldown is active.
C12_GateApplies ==
  LET primaryDirection == directionOf(args.signals.tech)
  IN \/ primaryIsHold(primaryDirection)
     \/ hasOpenTrade(args.openTrades, args.symbol, primaryDirection)
     \/ cooldownActive(args.lastTradeTimes, args.symbol, primaryDirection, now)

\* The weighted score clamped to [0, 1], in hundredths.
C12_ClampedScore ==
  LET score == weightedScore(args.signals, directionOf(args.signals.tech))
  IN IF score < 0 THEN 0 ELSE IF score > 100 THEN 100 ELSE score

\* C12: getFinalScore returns a direction other than HOLD exactly when no
\* gate applies and the clamped score is at least MIN_SIGNAL_SCORE, and the
\* direction is then the technical signal's.
C12_TradeIffScoreClearsThreshold ==
  ret # null =>
    /\ ret.direction # "HOLD"
          <=> (~C12_GateApplies /\ C12_ClampedScore >= MIN_SIGNAL_SCORE)
    /\ ret.direction # "HOLD" => ret.direction = args.signals.tech.direction

\* C12's case: no gate applies and the clamped score is exactly the
\* threshold, which gives a trade in the technical direction.
C12_Witness ==
  /\ ret # null
  /\ ~C12_GateApplies
  /\ C12_ClampedScore = MIN_SIGNAL_SCORE
  /\ ret.direction = args.signals.tech.direction
  /\ ret.direction \in Directions

\* A signal's score as it enters the sum, in tenths: the technical score as
\* it is, a secondary score with a minus sign when the signal's direction is
\* not the technical one, a missing signal as 0.
C33_Term(signal, secondary) ==
  IF signal = null THEN 0
  ELSE IF secondary /\ signal.direction # args.signals.tech.direction
         THEN 0 - signal.score
         ELSE signal.score

\* w_tech*tech + w_sent*s_sent + w_pred*s_pred - w_vol*penalty, in hundredths.
C33_Sum ==
  WEIGHT_TECH * C33_Term(args.signals.tech, FALSE)
  + WEIGHT_SENT * C33_Term(args.signals.sent, TRUE)
  + WEIGHT_PRED * C33_Term(args.signals.pred, TRUE)
  - WEIGHT_VOL_PENALTY * (IF args.signals.vol = null THEN 0 ELSE args.signals.vol.penalty)

\* C33: when no gate applies, finalScore is the weighted sum clamped to
\* [0, 1], a secondary score entering negated when its direction differs
\* from the primary one; and finalScore lies in [0, 1] on every call.
C33_FinalScoreIsClampedSum ==
  ret # null =>
    /\ ret.finalScore >= 0 /\ ret.finalScore <= 100
    /\ ~C12_GateApplies =>
         ret.finalScore = Max(0, IF C33_Sum > 100 THEN 100 ELSE C33_Sum)

\* C33's case: no gate applies, sentiment disagrees with the technical
\* direction and the prediction agrees, and the sum is strictly inside the
\* range.
C33_Witness ==
  /\ ret # null
  /\ ~C12_GateApplies
  /\ args.signals.sent # null
  /\ args.signals.sent.direction \in Directions
  /\ args.signals.sent.direction # args.signals.tech.direction
  /\ args.signals.pred # null
  /\ args.signals.pred.direction = args.signals.tech.direction
  /\ C33_Sum > 0 /\ C33_Sum < 100
  /\ ret.finalScore = C33_Sum

\* C34: getFinalScore is a function of its arguments alone: a call with the
\* same signals, openTrades, lastTradeTimes and symbol made at any other
\* time returns the direction and finalScore this call returned.
C34_SameResultWheneverCalled ==
  ret # null =>
    \A t \in CallTimes :
      /\ getFinalScoreResult(args, t).direction = ret.direction
      /\ getFinalScoreResult(args, t).finalScore = ret.finalScore

(***************************************************************************)
(* Properties of riskmap-ia, checked under SpecRisk.                       *)
(***************************************************************************)

\* C3: a registerTrade('loss') that is the MAX_LOSS_STREAK-th consecutive
\* loss (or a later one) leaves isPaused = true and pauseUntil = the time of
\* the call plus PAUSE_DURATION minutes; a loss that is not yet the
\* MAX_LOSS_STREAK-th leaves isPaused and pauseUntil as they were.
C3_LossStreakTrips ==
  [][ lossRun' = lossRun + 1 =>
        IF lossRun' >= MAX_LOSS_STREAK
          THEN /\ riskState'.isPaused
               /\ riskState'.pauseUntil = ISO(now + PAUSE_DURATION)
          ELSE /\ riskState'.isPaused = riskState.isPaused
               /\ riskState'.pauseUntil = riskState.pauseUntil ]_vars

\* C3's case: three losses in a row from the start have just tripped the
\* breaker.
C3_Witness ==
  /\ lossRun = MAX_LOSS_STREAK
  /\ riskState.tradeCount = MAX_LOSS_STREAK
  /\ riskState.isPaused
  /\ riskState.pauseUntil = ISO(now + PAUSE_DURATION)

\* C4: whenever updateBalance leaves the balance below the high-water mark
\* by more than MAX_DRAWDOWN_PERCENT of initialBalance, it leaves isPaused
\* = true.
C4_DrawdownFromHighWater ==
  [][ ( /\ riskState'.balance # riskState.balance
        /\ (highWater' - riskState'.balance) * 100
             > MAX_DRAWDOWN_PERCENT * riskState'.initialBalance )
      => riskState'.isPaused ]_vars

\* C5: while the system stays paused its resume time never moves to an
\* earlier time: a second breaker tripping keeps the later deadline.
C5_ResumeNeverEarlier ==
  [][ ( /\ riskState.isPaused /\ riskState'.isPaused
        /\ riskState.pauseUntil # null /\ riskState'.pauseUntil # null )
      => riskState'.pauseUntil[1] >= riskState.pauseUntil[1] ]_vars

\* C6: a checkStatus call made while paused with now >= pauseUntil leaves
\* isPaused = false, pauseUntil = null, lossesInRow = 0 and reports
\* isPaused = false; made while paused with now < pauseUntil it changes
\* nothing and reports isPaused = true with the same pauseUntil.
C6_CheckStatusClearsExpiredPause ==
  [][ ( ret' # null /\ riskState.isPaused /\ riskState.pauseUntil # null ) =>
        IF now >= riskState.pauseUntil[1]
          THEN /\ ~riskState'.isPaused
               /\ riskState'.pauseUntil = null
               /\ riskState'.lossesInRow = 0
               /\ ~ret'.isPaused
               /\ ret'.pauseUntil = null
          ELSE /\ riskState' = riskState
               /\ ret'.isPaused
               /\ ret'.pauseUntil = riskState.pauseUntil ]_vars

\* C6's case: checkStatus has just resumed a bot that three losses paused.
C6_Witness ==
  /\ ret # null
  /\ ~ret.isPaused
  /\ ~riskState.isPaused
  /\ riskState.maxLossStreak = MAX_LOSS_STREAK
  /\ riskState.tradeCount = MAX_LOSS_STREAK
  /\ riskState.lossesInRow = 0
  /\ now = PAUSE_DURATION

\* C7: isPaused goes from true to false only in a checkStatus call made at
\* or after pauseUntil; every other call made while paused leaves isPaused
\* true.
C7_OnlyCheckStatusResumes ==
  [][ ( riskState.isPaused /\ ~riskState'.isPaused ) =>
        /\ ret' # null
        /\ riskState.pauseUntil # null
        /\ now >= riskState.pauseUntil[1] ]_vars

\* C7's case: the bot is paused by three losses, a win has been registered
\* since, its save failed, and the bot is still paused.
C7_Witness ==
  /\ riskState.isPaused
  /\ riskState.maxLossStreak = MAX_LOSS_STREAK
  /\ riskState.tradeCount = MAX_LOSS_STREAK + 1
  /\ riskState.lossesInRow = 0
  /\ saveError

\* C8: lossesInRow equals the number of consecutive losses registered since
\* the last win or resume.
C8_LossesInRowIsTheRun == riskState.lossesInRow = lossRun

\* C8's case: two losses, a win that reset the counter, then one loss, all
\* before any pause could have expired.
C8_Witness ==
  /\ now = 0
  /\ riskState.tradeCount = 4
  /\ riskState.maxLossStreak = 2
  /\ riskState.lossesInRow = 1

\* C38: in every state reached from the default one through initBalance,
\* updateBalance, registerTrade and checkStatus, isPaused is true exactly
\* when pauseUntil is not null.
C38_PausedIffDeadline ==
  riskState.isPaused <=> riskState.pauseUntil # null

\* C38's case: both breakers have tripped at some time and checkStatus has
\* cleared the pause since.
C38_Witness ==
  /\ riskState.maxLossStreak >= MAX_LOSS_STREAK
  /\ riskState.maxDrawdown > 0
  /\ drawdownBreached(riskState.maxDrawdown, riskState.initialBalance)
  /\ ~riskState.isPaused
  /\ riskState.pauseUntil = null
  /\ "isPaused" \in DOMAIN ret
  /\ ~ret.isPaused

(***************************************************************************)
(* The loop's counters, checked under SpecLoopLive.                        *)
(***************************************************************************)

\* winCount + lossCount <= operationCount <= TOTAL_OPERATIONS, the two
\* counters together are the trades executed, and a phase that has
\* completed has run TOTAL_OPERATIONS iterations.
C40_Counts ==
  /\ systemState.winCount + systemState.lossCount <= systemState.operationCount
  /\ systemState.operationCount <= TOTAL_OPERATIONS
  /\ systemState.winCount + systemState.lossCount = executed
  /\ pc = "done" => i = TOTAL_OPERATIONS /\ systemState.operationCount = TOTAL_OPERATIONS

\* An iteration skipped by a pause or by an active news window: it moves
\* operationCount on by one and leaves winCount and lossCount alone.
C40_Skip ==
  ( loopIteration /\ pc' # "executeTrade" ) =>
    /\ systemState'.operationCount = systemState.operationCount + 1
    /\ systemState'.winCount = systemState.winCount
    /\ systemState'.lossCount = systemState.lossCount

\* C40: the phase loop runs exactly TOTAL_OPERATIONS iterations and then
\* completes; in every state winCount + lossCount <= operationCount <=
\* TOTAL_OPERATIONS and winCount + lossCount is the number of trades
\* executed; an iteration skipped by a pause or a news window advances
\* operationCount and changes neither winCount nor lossCount.
C40_LoopRunsToCompletion == []C40_Counts /\ [][C40_Skip]_vars /\ <>(pc = "done")

\* The part of C40 that is about the counters alone.
C40_CountersHold == []C40_Counts /\ [][C40_Skip]_vars

====
